---- MODULE Spec2Model ----
(***************************************************************************)
(* Model of buildmcp's build pipeline (src/src/buildmcp/builder.py and     *)
(* src/src/buildmcp/checksum.py): template resolution, environment         *)
(* substitution, content hashing, the lock file and the target dispatcher, *)
(* driven by MCPBuilder.run.                                               *)
(*                                                                         *)
(* JSON-like trees are tagged records [t, v]:                              *)
(*   t = "str"   v = a sequence of one-character strings                   *)
(*   t = "map"   v = a sequence of <<key, tree>> pairs with distinct keys  *)
(*               (a Python dict, which keeps insertion order)              *)
(*   t = "list"  v = a sequence of trees                                   *)
(*   t = "prim"  v = a token standing for a number, boolean or null        *)
(***************************************************************************)
EXTENDS Integers, Sequences, FiniteSets, TLC

VARIABLES
    cfgState,        \* "ok" | "missing" | "unparsable": the file at mcp_json
    base_servers,    \* config["mcpServers"], a dict
    profiles,        \* config["profiles"]: sequence of <<profile name, server_names>>
    targets,         \* config["targets"]: profile name -> target spec kind, "none" when no key
    env,             \* process environment: set of <<name, value>>
    dry_run,         \* MCPBuilder.dry_run
    force,           \* MCPBuilder.force
    profile,         \* MCPBuilder.profile ("" is None)
    verbose,         \* MCPBuilder.verbose
    check_env,       \* MCPBuilder.check_env
    pc,              \* position of the invocation inside main()/run()
    idx,             \* position of the profile loop of run()
    missing_vars,    \* MCPBuilder._missing_vars
    profile_hashes,  \* MCPBuilder._profile_hashes, a dict in insertion order
    locked_hashes,   \* MCPBuilder._locked_hashes
    success_count,   \* run()'s success_count
    lockFile,        \* the file at mcp_json.with_suffix(".lock")
    files,           \* profile name -> content of that profile's target file
    execs,           \* external write commands executed so far: set of <<profile, payload>>
    stdout,          \* what the invocation printed on the primary output channel
    stderr,          \* its diagnostics about environment variables and the lock file
    exitCode,        \* exit status of the invocation
    log,             \* write_target calls of the current invocation, in order
    hist,            \* bookkeeping about the current and the previous invocation
    committed,       \* <<profile, hash>> of every document a target accepted
    bIn,             \* arguments of a build_servers_json call
    bOut,            \* its result
    heap,            \* the objects behind those arguments and that result
    sIn,             \* the tree given to substitute_env_vars called on its own
    sOut,            \* what each of these calls returned and printed
    hIn,             \* two trees given to hash_json_data called on its own
    hOut,            \* their digests
    pIn,             \* a file, a value and a path given to write_json_path on its own
    pOut,            \* the file afterwards and what read_json_path then returns
    wIn,             \* a target spec and a document given to write_target on its own
    wOut             \* what that call returned

vars == <<cfgState, base_servers, profiles, targets, env, dry_run, force, profile,
          verbose, check_env,
          pc, idx, missing_vars, profile_hashes, locked_hashes, success_count,
          lockFile, files, execs, stdout, stderr, exitCode, log, hist, committed, bIn, bOut,
          heap, sIn, sOut, hIn, hOut, pIn, pOut, wIn, wOut>>

configVars == <<cfgState, base_servers, profiles, targets, env>>
flagVars == <<dry_run, force, profile, verbose, check_env>>
buildVars == <<bIn, bOut, heap, sIn, sOut, hIn, hOut, pIn, pOut, wIn, wOut>>

----------------------------------------------------------------------------
(* Bounds *)

\* invocations of the command line tool in one behaviour
MaxRuns == 2
\* length of the server_names lists given to build_servers_json on its own
MaxNames == 2

----------------------------------------------------------------------------
(* Trees and dicts *)

Str(s) == [t |-> "str", v |-> s]
Map(m) == [t |-> "map", v |-> m]
List(l) == [t |-> "list", v |-> l]
Prim(p) == [t |-> "prim", v |-> p]

EmptyDict == << >>

Keys(d) == {d[k][1] : k \in 1..Len(d)}

HasKey(d, key) == \E k \in 1..Len(d) : d[k][1] = key

DictGet(d, key) == d[CHOOSE k \in 1..Len(d) : d[k][1] = key][2]

\* d[key] = value on a Python dict: an existing key keeps its position
DictSet(d, key, value) ==
    IF HasKey(d, key)
    THEN [k \in 1..Len(d) |-> IF d[k][1] = key THEN <<key, value>> ELSE d[k]]
    ELSE Append(d, <<key, value>>)

\* code-point order of the keys used in the model
KeyOrder == <<"${V}", "A", "B", "C", "M", "T", "command", "mcpServers", "name", "other", "p", "q">>

KeyRank(key) == CHOOSE r \in 1..Len(KeyOrder) : KeyOrder[r] = key

\* code-point order of the environment variable names used in the model
NameOrder == << <<"V">>, <<"W">>, <<"k", "e", "y">> >>

NameRank(name) == CHOOSE r \in 1..Len(NameOrder) : NameOrder[r] = name

----------------------------------------------------------------------------
(* EnvSubstitutor: MCPBuilder.substitute_env_vars *)

Getenv(e, var_name) == {pair[2] : pair \in {q \in e : q[1] = var_name}}

\* the lowercase letters of the variable names used in the model, and their capitals
LowerCase == <<"e", "k", "y">>
UpperCase == <<"E", "K", "Y">>

\* str.upper
upper(s) ==
    [i \in 1..Len(s) |->
        IF \E j \in 1..Len(LowerCase) : LowerCase[j] = s[i]
        THEN UpperCase[CHOOSE j \in 1..Len(LowerCase) : LowerCase[j] = s[i]]
        ELSE s[i]]

\* sub in s, on strings
Contains(s, sub) ==
    \E i \in 1..(Len(s) - Len(sub) + 1) : SubSeq(s, i, i + Len(sub) - 1) = sub

SensitiveMarkers ==
    { <<"K", "E", "Y">>, <<"T", "O", "K", "E", "N">>, <<"S", "E", "C", "R", "E", "T">>,
      <<"P", "A", "S", "S", "W", "O", "R", "D">> }

\* a value longer than this, of a variable with a sensitive name, is shown redacted
SensitiveMinLen == 10

\* replace_var, lines 90-96: what the verbose line shows of a substituted value
display_value(var_name, value) ==
    IF /\ Len(value) > SensitiveMinLen
       /\ \E key \in SensitiveMarkers : Contains(upper(var_name), key)
    THEN SubSeq(value, 1, 3) \o <<".", ".", ".">> \o SubSeq(value, Len(value) - 2, Len(value))
    ELSE value

MissingLine(var_name) == [kind |-> "missing", name |-> var_name, shown |-> << >>]

SubstitutedLine(var_name, shown) == [kind |-> "substituted", name |-> var_name, shown |-> shown]

\* replace_var that does not record the name of an unset variable
replace_var_forgets_missing(e, var_name, placeholder) ==
    IF Getenv(e, var_name) = {}
    THEN [text |-> placeholder, missing |-> {},
          lines |-> IF check_env /\ verbose THEN <<MissingLine(var_name)>> ELSE << >>]
    ELSE LET value == CHOOSE value \in Getenv(e, var_name) : TRUE
         IN [text |-> value, missing |-> {},
             lines |-> IF verbose
                       THEN <<SubstitutedLine(var_name, display_value(var_name, value))>>
                       ELSE << >>]

\* replace_var that returns, in verbose mode, the text it shows
replace_var_returns_display(e, var_name, placeholder) ==
    IF Getenv(e, var_name) = {}
    THEN [text |-> placeholder, missing |-> {var_name},
          lines |-> IF check_env /\ verbose THEN <<MissingLine(var_name)>> ELSE << >>]
    ELSE LET value == CHOOSE value \in Getenv(e, var_name) : TRUE
         IN [text |-> IF verbose THEN display_value(var_name, value) ELSE value,
             missing |-> {},
             lines |-> IF verbose
                       THEN <<SubstitutedLine(var_name, display_value(var_name, value))>>
                       ELSE << >>]

\* replace_var that looks a value up again when the value is itself a placeholder
replace_var_expanding(e, var_name, placeholder) ==
    IF Getenv(e, var_name) = {}
    THEN [text |-> placeholder, missing |-> {var_name},
          lines |-> IF check_env /\ verbose THEN <<MissingLine(var_name)>> ELSE << >>]
    ELSE LET value == CHOOSE value \in Getenv(e, var_name) : TRUE
             inner == IF Len(value) > 3 /\ value[1] = "$" /\ value[2] = "{"
                         /\ value[Len(value)] = "}"
                      THEN SubSeq(value, 3, Len(value) - 1) ELSE << >>
         IN [text |-> IF inner # << >> /\ Getenv(e, inner) # {}
                      THEN CHOOSE again \in Getenv(e, inner) : TRUE
                      ELSE value,
             missing |-> IF inner # << >> /\ Getenv(e, inner) = {} THEN {inner} ELSE {},
             lines |-> IF verbose
                       THEN <<SubstitutedLine(var_name, display_value(var_name, value))>>
                       ELSE << >>]

\* replace_var: the text put in place of one match, the name recorded as missing
\* and the diagnostic lines printed
replace_var(e, var_name, placeholder) ==
    IF Getenv(e, var_name) = {}
    THEN [text |-> placeholder, missing |-> {var_name},
          lines |-> IF check_env /\ verbose THEN <<MissingLine(var_name)>> ELSE << >>]
    ELSE LET value == CHOOSE value \in Getenv(e, var_name) : TRUE
         IN [text |-> value, missing |-> {},
             lines |-> IF verbose
                       THEN <<SubstitutedLine(var_name, display_value(var_name, value))>>
                       ELSE << >>]

\* end of the match of \$\{([^}]+)\} starting at position i of s, 0 when there is none
MatchEnd(s, i) ==
    IF /\ i + 3 <= Len(s)
       /\ s[i] = "$"
       /\ s[i + 1] = "{"
       /\ s[i + 2] # "}"
       /\ \E j \in (i + 3)..Len(s) : s[j] = "}"
    THEN CHOOSE j \in (i + 3)..Len(s) :
            /\ s[j] = "}"
            /\ \A k \in (i + 3)..(j - 1) : s[k] # "}"
    ELSE 0

RECURSIVE Flatten(_)
Flatten(seqs) == IF seqs = << >> THEN << >> ELSE Head(seqs) \o Flatten(Tail(seqs))

\* the match of the pattern at position i of s, as replace_var treats it
Replaced(e, s, i) ==
    replace_var(e, SubSeq(s, i + 2, MatchEnd(s, i) - 1), SubSeq(s, i, MatchEnd(s, i)))

RECURSIVE SubText(_, _, _)
\* pattern.sub(replace_var, data) from position i on: the text it gives
SubText(e, s, i) ==
    IF i > Len(s) THEN << >>
    ELSE IF MatchEnd(s, i) # 0
         THEN Replaced(e, s, i).text \o SubText(e, s, MatchEnd(s, i) + 1)
         ELSE <<s[i]>> \o SubText(e, s, i + 1)

RECURSIVE SubMissing(_, _, _)
\* the names its calls of replace_var record as missing
SubMissing(e, s, i) ==
    IF i > Len(s) THEN {}
    ELSE IF MatchEnd(s, i) # 0
         THEN Replaced(e, s, i).missing \cup SubMissing(e, s, MatchEnd(s, i) + 1)
         ELSE SubMissing(e, s, i + 1)

RECURSIVE SubLines(_, _, _)
\* the lines its calls of replace_var print
SubLines(e, s, i) ==
    IF i > Len(s) THEN << >>
    ELSE IF MatchEnd(s, i) # 0
         THEN Replaced(e, s, i).lines \o SubLines(e, s, MatchEnd(s, i) + 1)
         ELSE SubLines(e, s, i + 1)

RECURSIVE SubstValue(_, _)
\* the value substitute_env_vars returns
SubstValue(e, data) ==
    IF data.t = "str" THEN Str(SubText(e, data.v, 1))
    ELSE IF data.t = "map"
    THEN Map([k \in 1..Len(data.v) |-> <<data.v[k][1], SubstValue(e, data.v[k][2])>>])
    ELSE IF data.t = "list"
    THEN List([k \in 1..Len(data.v) |-> SubstValue(e, data.v[k])])
    ELSE data

RECURSIVE SubstMissing(_, _)
\* the names substitute_env_vars adds to _missing_vars
SubstMissing(e, data) ==
    IF data.t = "str" THEN SubMissing(e, data.v, 1)
    ELSE IF data.t = "map"
    THEN UNION {SubstMissing(e, data.v[k][2]) : k \in 1..Len(data.v)}
    ELSE IF data.t = "list"
    THEN UNION {SubstMissing(e, data.v[k]) : k \in 1..Len(data.v)}
    ELSE {}

RECURSIVE SubstLines(_, _)
\* the diagnostic lines substitute_env_vars prints
SubstLines(e, data) ==
    IF data.t = "str" THEN SubLines(e, data.v, 1)
    ELSE IF data.t = "map"
    THEN Flatten([k \in 1..Len(data.v) |-> SubstLines(e, data.v[k][2])])
    ELSE IF data.t = "list"
    THEN Flatten([k \in 1..Len(data.v) |-> SubstLines(e, data.v[k])])
    ELSE << >>

\* substitute_env_vars: its value, what it adds to _missing_vars, what it prints
SubstEnv(e, data) ==
    [value |-> SubstValue(e, data), missing |-> SubstMissing(e, data),
     lines |-> SubstLines(e, data)]

substitute_env_vars(e, data) == SubstValue(e, data)

----------------------------------------------------------------------------
(* ContentHasher: checksum.hash_json_data *)

RECURSIVE SortKeys(_)
\* the items of a dict in the order json.dumps(sort_keys=True) writes them
SortKeys(d) ==
    IF d = << >> THEN << >>
    ELSE LET m == CHOOSE k \in 1..Len(d) :
                     \A j \in 1..Len(d) : KeyRank(d[k][1]) <= KeyRank(d[j][1])
         IN <<d[m]>> \o SortKeys([k \in 1..(Len(d) - 1) |-> IF k < m THEN d[k] ELSE d[k + 1]])

\* a serialization that keeps the keys in the order of the mapping
NormalizedUnsorted(data) == data

RECURSIVE Normalized(_)
\* json.dumps(data, sort_keys=True, separators=(",", ":"))
Normalized(data) ==
    IF data.t = "map"
    THEN LET sorted == SortKeys(data.v)
         IN Map([k \in 1..Len(sorted) |-> <<sorted[k][1], Normalized(sorted[k][2])>>])
    ELSE IF data.t = "list"
    THEN List([k \in 1..Len(data.v) |-> Normalized(data.v[k])])
    ELSE data

\* the digest stands for its preimage: equal digests iff equal normalized text
hash_json_data(data) == [t |-> "sha256", v |-> Normalized(data)]

----------------------------------------------------------------------------
(* TemplateResolver: MCPBuilder.build_servers_json *)

RECURSIVE AddTemplatesUntilMissing(_, _, _)
\* a loop that ends at the first name that is no template
AddTemplatesUntilMissing(servers, server_names, tpls) ==
    IF server_names = << >> THEN servers
    ELSE LET name == Head(server_names)
         IN IF ~HasKey(tpls, name)
            THEN servers
            ELSE AddTemplatesUntilMissing(DictSet(servers, name, DictGet(tpls, name)),
                                          Tail(server_names), tpls)

RECURSIVE AddTemplates(_, _, _)
\* the loop over server_names, servers being the dict built so far
AddTemplates(servers, server_names, tpls) ==
    IF server_names = << >> THEN servers
    ELSE LET name == Head(server_names)
         IN IF ~HasKey(tpls, name)
            THEN AddTemplates(servers, Tail(server_names), tpls)
            ELSE AddTemplates(DictSet(servers, name, DictGet(tpls, name)),
                              Tail(server_names), tpls)

build_servers_json(server_names, tpls, base) ==
    AddTemplates(base, server_names, tpls)

----------------------------------------------------------------------------
(* PathResolver: checksum.read_json_path and checksum.write_json_path; a    *)
(* path is the sequence of its segments, << >> for "." and <<"mcpServers">> *)
(* for ".mcpServers"; a JSON text is the sequence of its tokens             *)

AbsentFile == [state |-> "absent", data |-> EmptyDict]

Punct(c) == [k |-> "punct", v |-> c]

RECURSIVE json_dumps(_)
\* json.dumps(data, indent=2): the keys of a mapping in insertion order
json_dumps(tree) ==
    IF tree.t = "map"
    THEN <<Punct("{")>>
         \o Flatten([i \in 1..Len(tree.v) |->
                        <<[k |-> "key", v |-> tree.v[i][1]]>> \o json_dumps(tree.v[i][2])])
         \o <<Punct("}")>>
    ELSE IF tree.t = "list"
    THEN <<Punct("[")>>
         \o Flatten([i \in 1..Len(tree.v) |-> json_dumps(tree.v[i])])
         \o <<Punct("]")>>
    ELSE <<[k |-> tree.t, v |-> tree.v]>>

Closes(tok) == tok.k = "punct" /\ tok.v \in {"}", "]"}

RECURSIVE ValueEnd(_, _)
RECURSIVE MembersEnd(_, _)
\* the position of the last token of the value that starts at position i
ValueEnd(text, i) ==
    IF text[i].k = "punct" THEN MembersEnd(text, i + 1) ELSE i

\* the position of the bracket that closes the members starting at position i
MembersEnd(text, i) ==
    IF Closes(text[i]) THEN i
    ELSE IF text[i].k = "key" THEN MembersEnd(text, ValueEnd(text, i + 1) + 1)
    ELSE MembersEnd(text, ValueEnd(text, i) + 1)

RECURSIVE ParseValue(_, _)
RECURSIVE ParseMembers(_, _)
\* the value whose text starts at position i
ParseValue(text, i) ==
    IF text[i].k # "punct" THEN [t |-> text[i].k, v |-> text[i].v]
    ELSE IF text[i].v = "{" THEN Map(ParseMembers(text, i + 1))
    ELSE List(ParseMembers(text, i + 1))

\* the members, up to the closing bracket, whose text starts at position i
ParseMembers(text, i) ==
    IF Closes(text[i]) THEN << >>
    ELSE IF text[i].k = "key"
    THEN << <<text[i].v, ParseValue(text, i + 1)>> >>
         \o ParseMembers(text, ValueEnd(text, i + 1) + 1)
    ELSE <<ParseValue(text, i)>> \o ParseMembers(text, ValueEnd(text, i) + 1)

\* json.loads
json_loads(text) == ParseValue(text, 1)

\* dpath.new that puts the value in place of the whole first segment
dpath_new_flat(data, path, value) == DictSet(data, path[1], value)

RECURSIVE dpath_new(_, _, _)
\* dpath.new(data, path, value): the mappings on the way are created when
\* they are missing, the other keys on the way are left alone
dpath_new(data, path, value) ==
    IF Len(path) = 1 THEN DictSet(data, path[1], value)
    ELSE LET sub == IF HasKey(data, path[1]) THEN DictGet(data, path[1]).v ELSE EmptyDict
         IN DictSet(data, path[1], Map(dpath_new(sub, Tail(path), value)))

\* write_json_path, lines 57-69: the file afterwards
write_json_path(file, value, path) ==
    LET data == IF file.state = "absent" THEN EmptyDict ELSE file.data
        written == IF path = << >> THEN value ELSE dpath_new(data, path, Map(value))
    IN [state |-> "ok", data |-> json_loads(json_dumps(Map(written))).v]

\* write_json_path, line 68: the parent directory exists afterwards
mkdir_parents(exists) == TRUE

RECURSIVE dpath_get(_, _)
\* dpath.get(data, path): the value at the path, KeyError when there is none
dpath_get(tree, path) ==
    IF path = << >> THEN [ok |-> TRUE, value |-> tree]
    ELSE IF tree.t = "map" /\ HasKey(tree.v, path[1])
    THEN dpath_get(DictGet(tree.v, path[1]), Tail(path))
    ELSE [ok |-> FALSE, value |-> Prim("KeyError")]

\* read_json_path that returns the whole document whatever the path
read_json_path_whole(file, path) == dpath_get(Map(file.data), << >>)

\* read_json_path, lines 25-43
read_json_path(file, path) ==
    IF file.state # "ok" THEN [ok |-> FALSE, value |-> Prim("FileNotFoundError")]
    ELSE dpath_get(Map(file.data), path)

----------------------------------------------------------------------------
(* The configurations, environments and lock files the model starts from *)

ProfileNames == {"p", "q"}

ServerDef(command) == Map(<< <<"command", Str(command)>> >>)

NamedServerDef(name, command) ==
    Map(<< <<"name", Str(<<name>>)>>, <<"command", Str(command)>> >>)

\* config["templates"]
templates ==
    << <<"A", ServerDef(<<"x">>)>>,
       <<"B", ServerDef(<<"$", "{", "V", "}">>)>>,
       <<"T", NamedServerDef("A", <<"y">>)>>,
       <<"C", ServerDef(<<"$", "{", "W", "}", "$", "{", "V", "}">>)>> >>

BaseChoices == { EmptyDict, << <<"A", ServerDef(<<"o">>)>> >> }

\* "M" names no template
ServerNameLists == { << >>, <<"B">>, <<"M", "A">> }

ProfileChoices ==
    { << >> }
    \cup { << <<"p", l>> >> : l \in ServerNameLists }
    \cup { << <<"p", l1>>, <<"q", l2>> >> :
               l1 \in ServerNameLists, l2 \in ServerNameLists \ { << >> } }

NoTarget == [type |-> "none"]
FileTarget == [type |-> "str", json |-> TRUE]
ShellTarget == [type |-> "dict", write |-> TRUE]
InvalidTarget == [type |-> "dict", write |-> FALSE]

TargetSpecs == {NoTarget, FileTarget, ShellTarget, InvalidTarget}

TargetChoices ==
    { t \in [ProfileNames -> TargetSpecs] : t["q"] # InvalidTarget }

EnvChoices == { {}, { << <<"V">>, <<"x">> >> } }

\* the digest of some earlier build, which no build of these configurations produces
StaleHash == hash_json_data(Map(<< <<"other", ServerDef(<<"o">>)>> >>))

AbsentLock == [state |-> "absent", entries |-> EmptyDict]
CorruptLock == [state |-> "corrupt", entries |-> EmptyDict]
TruncatedLock == [state |-> "truncated", entries |-> EmptyDict]
LockOf(entries) == [state |-> "ok", entries |-> entries]

\* the digest an earlier build of profile name left in the lock file: the one the
\* configuration and environment c still give, or a stale one
HashBefore(c, name) ==
    IF \E k \in 1..Len(c.profiles) :
          /\ c.profiles[k][1] = name
          /\ build_servers_json(c.profiles[k][2], c.templates, c.base_servers) # EmptyDict
    THEN LET k == CHOOSE k \in 1..Len(c.profiles) : c.profiles[k][1] = name
         IN hash_json_data(substitute_env_vars(c.env,
                Map(build_servers_json(c.profiles[k][2], c.templates, c.base_servers))))
    ELSE StaleHash

\* the lock files an invocation may find
LockChoices(c) ==
    { AbsentLock, CorruptLock,
      LockOf(<< <<"p", HashBefore(c, "p")>> >>),
      LockOf(<< <<"q", StaleHash>>, <<"p", StaleHash>> >>),
      LockOf(<< <<"p", HashBefore(c, "p")>>, <<"q", HashBefore(c, "q")>> >>) }

\* no object is looked at
NoHeap == [objs |-> << >>, servers |-> << >>, touched |-> {}]

\* no tree is given to substitute_env_vars on its own
NoSubstInput == [segs |-> << >>, wrap |-> "str"]

\* no tree is given to hash_json_data on its own
NoHashInput == [x |-> Prim("0"), y |-> Prim("0")]
NoHashOutput == [done |-> TRUE, hx |-> StaleHash, hy |-> StaleHash, writes |-> FALSE]

\* no file is given to write_json_path on its own
NoPathInput == [file |-> AbsentFile, value |-> EmptyDict, path |-> << >>, parent |-> TRUE]
NoPathOutput == [written |-> TRUE, file |-> AbsentFile, parent |-> TRUE, read |-> << >>]

\* no target is given to write_target on its own
NoDispatchInput ==
    [path |-> << >>, target_spec |-> [type |-> "none"], servers_json |-> EmptyDict,
     fileOK |-> TRUE, returncode |-> 0, stdout |-> << >>, stderr |-> << >>]
NoDispatchOutput == [done |-> TRUE, returned |-> << >>, raised |-> FALSE]

NoHist ==
    [valid |-> FALSE, lockAfter |-> AbsentLock, saveFailed |-> FALSE, dispatched |-> FALSE]

FreshHist(run, lock, prev) ==
    [run |-> run, lockRead |-> FALSE, lockAtStart |-> lock, saveFailed |-> FALSE,
     summary |-> FALSE, saveStep |-> FALSE, resolved |-> {}, hashed |-> {},
     succeeded |-> {}, prev |-> prev]

\* a new MCPBuilder, as attrs constructs it
NewBuilder ==
    /\ pc' = "load_config"
    /\ idx' = 0
    /\ missing_vars' = {}
    /\ profile_hashes' = EmptyDict
    /\ locked_hashes' = EmptyDict
    /\ success_count' = 0
    /\ stdout' = << >>
    /\ stderr' = << >>
    /\ exitCode' = 0
    /\ log' = << >>

Init ==
    /\ cfgState \in {"ok", "missing", "unparsable"}
    /\ IF cfgState = "ok"
       THEN /\ base_servers \in BaseChoices
            /\ profiles \in ProfileChoices
            /\ targets \in TargetChoices
            /\ env \in EnvChoices
       ELSE /\ base_servers = EmptyDict
            /\ profiles = << >>
            /\ targets = [n \in ProfileNames |-> NoTarget]
            /\ env = {}
    /\ dry_run \in BOOLEAN
    /\ force \in BOOLEAN
    /\ profile \in {"", "p", "zz"}
    /\ verbose = FALSE
    /\ check_env = TRUE
    /\ pc = "load_config"
    /\ idx = 0
    /\ missing_vars = {}
    /\ profile_hashes = EmptyDict
    /\ locked_hashes = EmptyDict
    /\ success_count = 0
    /\ lockFile \in LockChoices([profiles |-> profiles, templates |-> templates,
                                 base_servers |-> base_servers, env |-> env])
    /\ files = [n \in ProfileNames |-> AbsentFile]
    /\ execs = {}
    /\ stdout = << >>
    /\ stderr = << >>
    /\ exitCode = 0
    /\ log = << >>
    /\ hist = FreshHist(1, lockFile, NoHist)
    /\ committed = {<<lockFile.entries[k][1], lockFile.entries[k][2]>> :
                        k \in 1..Len(lockFile.entries)}
    /\ bIn = [server_names |-> << >>, templates |-> templates, base_servers |-> EmptyDict]
    /\ bOut = [done |-> TRUE, servers |-> EmptyDict]
    /\ heap = NoHeap
    /\ sIn = NoSubstInput
    /\ sOut = << >>
    /\ hIn = NoHashInput
    /\ hOut = NoHashOutput
    /\ pIn = NoPathInput
    /\ pOut = NoPathOutput
    /\ wIn = NoDispatchInput
    /\ wOut = NoDispatchOutput

----------------------------------------------------------------------------
(* TargetDispatcher: MCPBuilder.write_target                               *)
(* io is what the file write or the subprocess did: fileOK is FALSE when   *)
(* write_json_path raises                                                  *)

AsciiLower ==
    <<"a", "b", "c", "d", "e", "f", "g", "h", "i", "j", "k", "l", "m", "n",
      "o", "p", "q", "r", "s", "t", "u", "v", "w", "x", "y", "z">>
AsciiUpper ==
    <<"A", "B", "C", "D", "E", "F", "G", "H", "I", "J", "K", "L", "M", "N",
      "O", "P", "Q", "R", "S", "T", "U", "V", "W", "X", "Y", "Z">>

\* str.lower() on the letters of the alphabet
lower(s) ==
    [i \in 1..Len(s) |->
        IF \E n \in 1..Len(AsciiUpper) : AsciiUpper[n] = s[i]
        THEN AsciiLower[CHOOSE n \in 1..Len(AsciiUpper) : AsciiUpper[n] = s[i]]
        ELSE s[i]]

\* write_target, lines 205-211
success_patterns ==
    <<
      <<"C", "o", "n", "f", "i", "g", "u", "r", "a", "t", "i", "o", "n",
        " ", "s", "a", "v", "e", "d", " ", "s", "u", "c", "c", "e", "s",
        "s", "f", "u", "l", "l", "y">>,
      <<"s", "u", "c", "c", "e", "s", "s", "f", "u", "l", "l", "y">>,
      <<"S", "u", "c", "c", "e", "s", "s">>,
      <<"U", "p", "d", "a", "t", "e", "d">>,
      <<"C", "o", "m", "p", "l", "e", "t", "e">>
    >>

\* a classification that looks for the patterns as they are written
has_success_message_exact(out, err) ==
    \E n \in 1..Len(success_patterns) : Contains(out \o err, success_patterns[n])

\* write_target, lines 204-215: one of the patterns is in the output of the
\* command, standard output followed by standard error, whatever the case
has_success_message(out, err) ==
    \E n \in 1..Len(success_patterns) :
        Contains(lower(out \o err), lower(success_patterns[n]))

\* str.endswith
endswith(s, suffix) ==
    /\ Len(s) >= Len(suffix)
    /\ SubSeq(s, Len(s) - Len(suffix) + 1, Len(s)) = suffix

DotJson == <<".", "j", "s", "o", "n">>
DotJson5 == <<".", "j", "s", "o", "n", "5">>

\* a target spec that is a string: write_target, lines 186-188
StrTarget(path) ==
    [type |-> "str", json |-> endswith(path, DotJson) \/ endswith(path, DotJson5)]

RECURSIVE Serializable(_)
\* json.dumps accepts the tree
Serializable(tree) ==
    IF tree.t \in {"str", "prim"} THEN TRUE
    ELSE IF tree.t = "map" THEN \A k \in 1..Len(tree.v) : Serializable(tree.v[k][2])
    ELSE IF tree.t = "list" THEN \A k \in 1..Len(tree.v) : Serializable(tree.v[k])
    ELSE FALSE

\* write_target without its try block
write_target_raises_uncaught(target_spec, servers_json, io) ==
    \/ ~Serializable(Map(servers_json))
    \/ /\ ~dry_run
       /\ target_spec.type = "str" /\ target_spec.json
       /\ ~io.fileOK

\* write_target, lines 177-178, 185 and 236-238: whether an exception leaves the
\* call; json.dumps runs before the try block, the writes run inside it
write_target_raises(target_spec, servers_json, io) == ~Serializable(Map(servers_json))

IOResults ==
    [fileOK : BOOLEAN, returncode : {0, 1}, has_success_message : BOOLEAN]

\* the boolean write_target returns
write_target_result(target_spec, io) ==
    IF dry_run THEN TRUE
    ELSE IF target_spec.type = "str" /\ target_spec.json THEN io.fileOK
    ELSE IF target_spec.type = "dict" /\ target_spec.write
         THEN io.returncode = 0 \/ io.has_success_message
    ELSE FALSE

\* write_target without the preview short-circuit
write_target_no_preview(name, target_spec, servers_json, io) ==
    /\ files' = IF /\ target_spec.type = "str" /\ target_spec.json
                   /\ io.fileOK
                THEN [files EXCEPT ![name] =
                         write_json_path(files[name], servers_json, <<"mcpServers">>)]
                ELSE files
    /\ execs' = IF target_spec.type = "dict" /\ target_spec.write
                THEN execs \cup {<<name, Map(<< <<"mcpServers", Map(servers_json)>> >>)>>}
                ELSE execs

\* what write_target does to the target files and to the commands run
write_target(name, target_spec, servers_json, io) ==
    /\ files' = IF /\ ~dry_run
                   /\ target_spec.type = "str" /\ target_spec.json
                   /\ io.fileOK
                THEN [files EXCEPT ![name] =
                         write_json_path(files[name], servers_json, <<"mcpServers">>)]
                ELSE files
    /\ execs' = IF /\ ~dry_run
                   /\ target_spec.type = "dict" /\ target_spec.write
                THEN execs \cup {<<name, Map(<< <<"mcpServers", Map(servers_json)>> >>)>>}
                ELSE execs

----------------------------------------------------------------------------
(* BuildOrchestrator: MCPBuilder.run, one action per step *)

\* load_config that takes an unparsable file for an empty configuration
load_config_lenient(state) == IF state = "missing" THEN "SystemExit" ELSE "config"

\* load_config: "config" when the file exists and parses, else SystemExit(1)
load_config(state) == IF state = "ok" THEN "config" ELSE "SystemExit"

\* a run that goes on to the lock file in every mode
after_load_config_always_lock == "load_lock"

\* run, line 313: where run goes once the configuration is loaded
after_load_config == IF profile # "" THEN "extract" ELSE "load_lock"

\* run, line 304
run_load_config ==
    /\ pc = "load_config"
    /\ IF load_config(cfgState) = "SystemExit"
       THEN /\ exitCode' = 1
            /\ pc' = "exit"
       ELSE /\ exitCode' = exitCode
            /\ pc' = after_load_config
    /\ UNCHANGED <<configVars, flagVars, idx, missing_vars, profile_hashes, locked_hashes,
                   success_count, lockFile, files, execs, stdout, stderr, log, hist, committed,
                   buildVars>>

ProfileDefined(name) == \E k \in 1..Len(profiles) : profiles[k][1] = name

ServerNamesOf(name) == profiles[CHOOSE k \in 1..Len(profiles) : profiles[k][1] = name][2]

\* a --profile path that takes a single resolved server for none
extract_exit_off_by_one(defined, servers) ==
    IF ~defined THEN 1
    ELSE IF Len(servers) <= 1 THEN 1
    ELSE 0

\* run, lines 314-327: the exit status of the --profile path
extract_exit(defined, servers) ==
    IF ~defined THEN 1
    ELSE IF servers = EmptyDict THEN 1
    ELSE 0

\* run, lines 313-336: the --profile path
extract_profile ==
    /\ pc = "extract"
    /\ pc' = "exit"
    /\ LET defined == ProfileDefined(profile)
           servers == IF defined
                      THEN build_servers_json(ServerNamesOf(profile), templates, base_servers)
                      ELSE EmptyDict
           sub == SubstEnv(env, Map(servers))
       IN /\ exitCode' = extract_exit(defined, servers)
          /\ hist' = [hist EXCEPT !.resolved = IF defined THEN @ \cup {profile} ELSE @]
          /\ IF defined /\ servers # EmptyDict
             THEN /\ missing_vars' = missing_vars \cup sub.missing
                  /\ stderr' = stderr \o sub.lines
                  /\ stdout' = Append(stdout, Map(<< <<"mcpServers", sub.value>> >>))
             ELSE UNCHANGED <<stdout, stderr, missing_vars>>
    /\ UNCHANGED <<configVars, flagVars, idx, profile_hashes, locked_hashes, success_count,
                   lockFile, files, execs, log, committed, buildVars>>

\* load_lock_file that never takes over the content of the lock file
load_lock_file_ignored(lock) == locked_hashes

\* load_lock_file that takes a file it cannot parse for a lock of old hashes
load_lock_file_guessing(lock) ==
    IF lock.state = "ok" THEN lock.entries ELSE << <<"p", StaleHash>> >>

\* load_lock_file: what _locked_hashes is afterwards
load_lock_file(lock) ==
    IF lock.state = "ok" THEN lock.entries ELSE locked_hashes

NoTargets == \A n \in ProfileNames : targets[n] = NoTarget

\* run, lines 338-347: load the lock file, return when there is nothing to build
run_load_lock ==
    /\ pc = "load_lock"
    /\ locked_hashes' = load_lock_file(lockFile)
    /\ hist' = [hist EXCEPT !.lockRead = (lockFile.state # "absent")]
    /\ IF profiles = << >> \/ NoTargets
       THEN /\ pc' = "exit"
            /\ idx' = idx
       ELSE /\ pc' = "loop"
            /\ idx' = 1
    /\ UNCHANGED <<configVars, flagVars, missing_vars, profile_hashes, success_count,
                   lockFile, files, execs, stdout, stderr, exitCode, log, committed, buildVars>>

\* should_write that holds a document back once a variable was found missing
should_write_when_nothing_missing(locked, name, built_hash) ==
    /\ missing_vars = {}
    /\ IF force THEN TRUE
       ELSE IF HasKey(locked, name)
            THEN DictGet(locked, name) # built_hash
            ELSE TRUE

\* should_write that forgets the force flag
should_write_without_force(locked, name, built_hash) ==
    IF HasKey(locked, name)
    THEN DictGet(locked, name) # built_hash
    ELSE TRUE

\* should_write that forgets the comparison with the locked hash
should_write_always(locked, name, built_hash) == TRUE

\* process_target, lines 276-293: whether the built document is dispatched
should_write(locked, name, built_hash) ==
    IF force THEN TRUE
    ELSE IF HasKey(locked, name)
         THEN DictGet(locked, name) # built_hash
         ELSE TRUE

\* process_target, line 270: self._profile_hashes[profile_name] = built_hash
record_hash(hashes, name, built_hash) == DictSet(hashes, name, built_hash)

\* a loop that ends the run at the first failed profile
stop_after_failure(ok) == IF ok THEN "loop" ELSE "exit"

\* run, lines 371-376: the loop goes on whatever process_target returned
after_process_target(ok) == "loop"

\* a loop that takes every profile to have a target
has_target_always(name) == name \in ProfileNames

\* run, line 363: profile_name in targets
has_target(name) == targets[name] # NoTarget

\* run, lines 364-366: the error line about a profile without a target
NoTargetLine(name) == [kind |-> "no_target", name |-> <<name>>, shown |-> << >>]

\* run, lines 362-376: one iteration of the profile loop, process_target included
process_profile ==
    /\ pc = "loop"
    /\ idx <= Len(profiles)
    /\ idx' = idx + 1
    /\ LET profile_name == profiles[idx][1]
           server_names == profiles[idx][2]
           target_spec == targets[profile_name]
           servers == build_servers_json(server_names, templates, base_servers)
           substituted == substitute_env_vars(env, Map(servers))
           built_hash == hash_json_data(substituted)
       IN IF ~has_target(profile_name)
          THEN /\ pc' = pc
               /\ stderr' = Append(stderr, NoTargetLine(profile_name))
               /\ UNCHANGED <<missing_vars, profile_hashes, success_count, files, execs,
                              log, hist, committed>>
          ELSE IF servers = EmptyDict
          THEN /\ pc' = after_process_target(TRUE)
               /\ success_count' = success_count + 1
               /\ hist' = [hist EXCEPT !.resolved = @ \cup {profile_name},
                                       !.succeeded = @ \cup {profile_name}]
               /\ UNCHANGED <<missing_vars, profile_hashes, files, execs, stderr, log,
                              committed>>
          ELSE /\ missing_vars' = missing_vars \cup SubstMissing(env, Map(servers))
               /\ stderr' = stderr \o SubstLines(env, Map(servers))
               /\ profile_hashes' = record_hash(profile_hashes, profile_name, built_hash)
               /\ IF ~should_write(locked_hashes, profile_name, built_hash)
                  THEN /\ pc' = after_process_target(TRUE)
                       /\ success_count' = success_count + 1
                       /\ hist' = [hist EXCEPT !.resolved = @ \cup {profile_name},
                                               !.hashed = @ \cup {profile_name},
                                               !.succeeded = @ \cup {profile_name}]
                       /\ UNCHANGED <<files, execs, log, committed>>
                  ELSE \E io \in IOResults :
                          LET ok == write_target_result(target_spec, io)
                          IN /\ write_target(profile_name, target_spec, substituted.v, io)
                             /\ pc' = after_process_target(ok)
                             /\ success_count' = IF ok THEN success_count + 1
                                                 ELSE success_count
                             /\ hist' = [hist EXCEPT
                                            !.resolved = @ \cup {profile_name},
                                            !.hashed = @ \cup {profile_name},
                                            !.succeeded = IF ok THEN @ \cup {profile_name}
                                                          ELSE @]
                             /\ log' = Append(log, [profile |-> profile_name,
                                                    hash |-> built_hash,
                                                    ok |-> ok])
                             /\ committed' = IF ok /\ ~dry_run
                                             THEN committed \cup {<<profile_name, built_hash>>}
                                             ELSE committed
    /\ UNCHANGED <<configVars, flagVars, locked_hashes, lockFile, stdout, exitCode,
                   buildVars>>

\* run, lines 378-381: the summary line
summary ==
    /\ pc = "loop"
    /\ idx > Len(profiles)
    /\ pc' = "save"
    /\ hist' = [hist EXCEPT !.summary = TRUE]
    /\ UNCHANGED <<configVars, flagVars, idx, missing_vars, profile_hashes, locked_hashes,
                   success_count, lockFile, files, execs, stdout, stderr, exitCode, log, committed,
                   buildVars>>

\* save_lock_file that writes an empty mapping too
lock_is_saved_when_empty(hashes) == ~dry_run /\ Len(hashes) >= 0

\* run, line 384, and save_lock_file, line 162: whether the lock file is written at all
lock_is_saved(hashes) == ~dry_run /\ hashes # EmptyDict

\* save_lock_file, line 171: the warning that the lock file could not be written
LockWarning == [kind |-> "lock_warning", name |-> << >>, shown |-> << >>]

\* run, lines 383-385, and save_lock_file up to the opening of the lock file:
\* write_text opens the file for writing, which empties it, or raises
save_lock_file ==
    /\ pc = "save"
    /\ IF ~lock_is_saved(profile_hashes)
       THEN /\ pc' = "report"
            /\ lockFile' = lockFile
            /\ stderr' = stderr
            /\ hist' = [hist EXCEPT !.saveStep = TRUE]
       ELSE \E opened \in BOOLEAN :
               IF opened
               THEN /\ lockFile' = TruncatedLock
                    /\ pc' = "save_write"
                    /\ stderr' = stderr
                    /\ hist' = [hist EXCEPT !.saveStep = TRUE]
               ELSE /\ lockFile' = lockFile
                    /\ pc' = "report"
                    /\ stderr' = Append(stderr, LockWarning)
                    /\ hist' = [hist EXCEPT !.saveStep = TRUE, !.saveFailed = TRUE]
    /\ UNCHANGED <<configVars, flagVars, idx, missing_vars, profile_hashes, locked_hashes,
                   success_count, files, execs, stdout, exitCode, log, committed,
                   buildVars>>

RECURSIVE saved_mapping_merged(_)
\* a save that keeps the entries loaded from the lock file which this pass did
\* not build again
saved_mapping_merged(hashes) ==
    IF hashes = EmptyDict THEN locked_hashes
    ELSE DictSet(saved_mapping_merged(SubSeq(hashes, 1, Len(hashes) - 1)),
                 hashes[Len(hashes)][1], hashes[Len(hashes)][2])

\* save_lock_file, line 167: the mapping written is self._profile_hashes
saved_mapping(hashes) == hashes

\* save_lock_file, line 167: the text of json.dumps(self._profile_hashes) reaches the file
save_lock_write ==
    /\ pc = "save_write"
    /\ lockFile' = LockOf(saved_mapping(profile_hashes))
    /\ pc' = "report"
    /\ UNCHANGED <<configVars, flagVars, idx, missing_vars, profile_hashes, locked_hashes,
                   success_count, files, execs, stdout, stderr, exitCode, log, hist, committed,
                   buildVars>>

\* a report made whether or not the check is enabled
reports_missing_unchecked(names) == names # {}

\* sorted(self._missing_vars)
RECURSIVE sorted(_)
sorted(names) ==
    IF names = {} THEN << >>
    ELSE LET first == CHOOSE n \in names : \A m \in names : NameRank(n) <= NameRank(m)
         IN <<first>> \o sorted(names \ {first})

MissingReport(names) == [kind |-> "report", name |-> << >>, shown |-> sorted(names)]

\* run, line 388: whether the missing variables are reported
reports_missing(names) == names # {} /\ check_env

\* run, lines 387-394: the report of the missing variables, then return
report_missing ==
    /\ pc = "report"
    /\ pc' = "exit"
    /\ stderr' = IF reports_missing(missing_vars)
                 THEN Append(stderr, MissingReport(missing_vars))
                 ELSE stderr
    /\ UNCHANGED <<configVars, flagVars, idx, missing_vars, profile_hashes, locked_hashes,
                   success_count, lockFile, files, execs, stdout, exitCode, log, hist,
                   committed, buildVars>>

Next ==
    \/ run_load_config
    \/ extract_profile
    \/ run_load_lock
    \/ process_profile
    \/ summary
    \/ save_lock_file
    \/ save_lock_write
    \/ report_missing

\* one invocation of the tool
Spec == Init /\ [][Next]_vars

\* main: the next invocation of the tool, same command line, configuration and environment
main ==
    /\ pc = "exit"
    /\ hist.run < MaxRuns
    /\ NewBuilder
    /\ hist' = FreshHist(hist.run + 1, lockFile,
                         [valid |-> TRUE, lockAfter |-> lockFile,
                          saveFailed |-> hist.saveFailed, dispatched |-> log # << >>])
    /\ UNCHANGED <<configVars, flagVars, lockFile, files, execs, committed, buildVars>>

\* plain build passes: no preview, no force, no --profile
RerunInit ==
    /\ Init
    /\ cfgState = "ok"
    /\ profile = ""
    /\ ~dry_run
    /\ ~force

RerunNext ==
    \/ run_load_config
    \/ run_load_lock
    \/ process_profile
    \/ summary
    \/ save_lock_file
    \/ save_lock_write
    \/ report_missing
    \/ main

\* successive invocations of the tool
RerunSpec == RerunInit /\ [][RerunNext]_vars

TypeOK ==
    /\ pc \in {"load_config", "extract", "load_lock", "loop", "save", "save_write",
               "report", "exit", "cancelled", "blocked"}
    /\ exitCode \in {0, 1}
    /\ success_count \in 0..Len(profiles)

----------------------------------------------------------------------------
(* Build passes over documents with placeholders, with every setting of the  *)
(* verbose and check_env flags                                               *)

EnvProfileChoices ==
    { << <<"p", <<"B">>>>, <<"q", <<"C">>>> >>,
      << <<"p", <<"C", "B">>>>, <<"q", <<"B">>>> >>,
      << <<"p", <<"A">>>>, <<"q", <<"C">>>> >>,
      << <<"p", << >>>>, <<"q", <<"B">>>> >> }

EnvTargetChoices ==
    { t \in [ProfileNames -> {NoTarget, FileTarget, ShellTarget}] : t["q"] # NoTarget }

EnvEnvChoices ==
    { {},
      { << <<"V">>, <<"x">> >> },
      { << <<"V">>, <<"x">> >>, << <<"W">>, <<"x">> >> } }

\* no lock file, or the one an earlier pass over the same documents left
EnvLockChoices(c) ==
    { AbsentLock,
      LockOf(<< <<"p", HashBefore(c, "p")>>, <<"q", HashBefore(c, "q")>> >>) }

EnvInit ==
    /\ cfgState = "ok"
    /\ base_servers = EmptyDict
    /\ profiles \in EnvProfileChoices
    /\ targets \in EnvTargetChoices
    /\ env \in EnvEnvChoices
    /\ dry_run = FALSE
    /\ force \in BOOLEAN
    /\ profile = ""
    /\ verbose \in BOOLEAN
    /\ check_env \in BOOLEAN
    /\ pc = "load_config"
    /\ idx = 0
    /\ missing_vars = {}
    /\ profile_hashes = EmptyDict
    /\ locked_hashes = EmptyDict
    /\ success_count = 0
    /\ lockFile \in EnvLockChoices([profiles |-> profiles, templates |-> templates,
                                 base_servers |-> base_servers, env |-> env])
    /\ files = [n \in ProfileNames |-> AbsentFile]
    /\ execs = {}
    /\ stdout = << >>
    /\ stderr = << >>
    /\ exitCode = 0
    /\ log = << >>
    /\ hist = FreshHist(1, lockFile, NoHist)
    /\ committed = {<<lockFile.entries[k][1], lockFile.entries[k][2]>> :
                        k \in 1..Len(lockFile.entries)}
    /\ bIn = [server_names |-> << >>, templates |-> templates, base_servers |-> EmptyDict]
    /\ bOut = [done |-> TRUE, servers |-> EmptyDict]
    /\ heap = NoHeap
    /\ sIn = NoSubstInput
    /\ sOut = << >>
    /\ hIn = NoHashInput
    /\ hOut = NoHashOutput
    /\ pIn = NoPathInput
    /\ pOut = NoPathOutput
    /\ wIn = NoDispatchInput
    /\ wOut = NoDispatchOutput

EnvNext ==
    \/ run_load_config
    \/ run_load_lock
    \/ process_profile
    \/ summary
    \/ save_lock_file
    \/ save_lock_write
    \/ report_missing

EnvSpec == EnvInit /\ [][EnvNext]_vars

----------------------------------------------------------------------------
(* Build passes that an interrupt or a write error may cut short: nothing in *)
(* main or run catches KeyboardInterrupt, and write_text opens the lock file *)
(* (emptying it) before it writes the text                                   *)

\* an interrupt handler that flushes the hashes recorded so far on the way out
interrupted_flushing(lock) ==
    IF profile_hashes # EmptyDict THEN LockOf(profile_hashes) ELSE lock

\* the lock file after the interrupt: no step of run is taken any more
interrupted(lock) == lock

\* KeyboardInterrupt at any point of run: it is not an Exception, so neither
\* load_lock_file nor save_lock_file nor write_target catches it
cancel ==
    /\ pc \notin {"exit", "cancelled"}
    /\ pc' = "cancelled"
    /\ exitCode' = 1
    /\ lockFile' = interrupted(lockFile)
    /\ UNCHANGED <<configVars, flagVars, idx, missing_vars, profile_hashes, locked_hashes,
                   success_count, files, execs, stdout, stderr, log, hist, committed,
                   buildVars>>

\* save_lock_file, lines 167-171: write_text raises after the file was opened,
\* the exception is caught and reported
save_lock_write_fails ==
    /\ pc = "save_write"
    /\ lockFile' = lockFile
    /\ pc' = "report"
    /\ stderr' = Append(stderr, LockWarning)
    /\ hist' = [hist EXCEPT !.saveFailed = TRUE]
    /\ UNCHANGED <<configVars, flagVars, idx, missing_vars, profile_hashes, locked_hashes,
                   success_count, files, execs, stdout, exitCode, log, committed,
                   buildVars>>

CancelInit ==
    /\ Init
    /\ cfgState = "ok"
    /\ profile = ""

CancelNext ==
    \/ run_load_config
    \/ run_load_lock
    \/ process_profile
    \/ summary
    \/ save_lock_file
    \/ save_lock_write
    \/ save_lock_write_fails
    \/ report_missing
    \/ cancel

CancelSpec == CancelInit /\ [][CancelNext]_vars

----------------------------------------------------------------------------
(* Build passes in which an external write command may never exit:          *)
(* subprocess.run is called without a timeout and returns when the command  *)
(* has exited                                                               *)

\* run, lines 362-376, with process_target up to subprocess.run, line 196, for
\* a command that never exits: the call does not return
process_profile_blocks ==
    /\ pc = "loop"
    /\ idx <= Len(profiles)
    /\ ~dry_run
    /\ LET profile_name == profiles[idx][1]
           servers == build_servers_json(profiles[idx][2], templates, base_servers)
           substituted == substitute_env_vars(env, Map(servers))
           built_hash == hash_json_data(substituted)
       IN /\ targets[profile_name] = ShellTarget
          /\ servers # EmptyDict
          /\ should_write(locked_hashes, profile_name, built_hash)
          /\ missing_vars' = missing_vars \cup SubstMissing(env, Map(servers))
          /\ stderr' = stderr \o SubstLines(env, Map(servers))
          /\ profile_hashes' = record_hash(profile_hashes, profile_name, built_hash)
          /\ execs' = execs \cup {<<profile_name, Map(<< <<"mcpServers", substituted>> >>)>>}
          /\ hist' = [hist EXCEPT !.resolved = @ \cup {profile_name},
                                  !.hashed = @ \cup {profile_name}]
    /\ pc' = "blocked"
    /\ UNCHANGED <<configVars, flagVars, idx, locked_hashes, success_count, lockFile,
                   files, stdout, exitCode, log, committed, buildVars>>

HangInit ==
    /\ Init
    /\ cfgState = "ok"
    /\ profile = ""
    /\ ~dry_run
    /\ lockFile.state # "corrupt"

HangNext ==
    \/ run_load_config
    \/ run_load_lock
    \/ process_profile
    \/ process_profile_blocks
    \/ summary
    \/ save_lock_file
    \/ save_lock_write
    \/ report_missing

HangSpec == HangInit /\ [][HangNext]_vars

----------------------------------------------------------------------------
(* build_servers_json called on its own *)

BuildNames == {"A", "B", "T", "M"}

RECURSIVE SeqsUpTo(_, _)
SeqsUpTo(S, n) ==
    IF n = 0 THEN { << >> }
    ELSE LET shorter == SeqsUpTo(S, n - 1)
         IN shorter \cup {Append(l, x) : l \in shorter, x \in S}

BuildBaseChoices ==
    { EmptyDict,
      << <<"A", ServerDef(<<"o">>)>> >>,
      << <<"B", ServerDef(<<"o">>)>>, <<"A", ServerDef(<<"o">>)>> >>,
      << <<"T", NamedServerDef("B", <<"o">>)>>, <<"A", ServerDef(<<"o">>)>> >> }

BuildTemplateChoices ==
    { templates,
      << <<"B", ServerDef(<<"y">>)>>, <<"A", NamedServerDef("B", <<"x">>)>> >> }

\* the object that is the value of key in the mapping called arg
ObjectOf(arg, key) == <<arg, key>>

SourceObjects(b) ==
    {ObjectOf("templates", key) : key \in Keys(b.templates)}
    \cup {ObjectOf("base_servers", key) : key \in Keys(b.base_servers)}

\* the value the caller's mappings give an object
SourceValue(b, obj) ==
    IF obj[1] = "templates" THEN DictGet(b.templates, obj[2])
    ELSE DictGet(b.base_servers, obj[2])

\* a copy that is the object itself
copy_alias(obj) == obj

\* copy.deepcopy: a new object
copy_deepcopy(obj) == <<"servers", obj[2]>>

\* lines 125 and 141: the object the entry key of the result was copied from
CopiedFrom(b, key) ==
    IF /\ \E i \in 1..Len(b.server_names) : b.server_names[i] = key
       /\ HasKey(b.templates, key)
    THEN ObjectOf("templates", key)
    ELSE ObjectOf("base_servers", key)

\* the mapping d with the objects looked up
Deref(objs, d) == [k \in 1..Len(d) |-> <<d[k][1], objs[d[k][2]]>>]

BuildInit ==
    /\ bIn \in [server_names : SeqsUpTo(BuildNames, MaxNames),
                templates : BuildTemplateChoices,
                base_servers : BuildBaseChoices]
    /\ bOut = [done |-> FALSE, servers |-> EmptyDict]
    /\ heap = [objs |-> [obj \in SourceObjects(bIn) |-> SourceValue(bIn, obj)],
               servers |-> << >>,
               touched |-> {}]
    /\ sIn = NoSubstInput
    /\ sOut = << >>
    /\ hIn = NoHashInput
    /\ hOut = NoHashOutput
    /\ pIn = NoPathInput
    /\ pOut = NoPathOutput
    /\ wIn = NoDispatchInput
    /\ wOut = NoDispatchOutput
    /\ cfgState = "ok"
    /\ base_servers = EmptyDict
    /\ profiles = << >>
    /\ targets = [n \in ProfileNames |-> NoTarget]
    /\ env = {}
    /\ dry_run = FALSE
    /\ force = FALSE
    /\ profile = ""
    /\ verbose = FALSE
    /\ check_env = TRUE
    /\ pc = "exit"
    /\ idx = 0
    /\ missing_vars = {}
    /\ profile_hashes = EmptyDict
    /\ locked_hashes = EmptyDict
    /\ success_count = 0
    /\ lockFile = AbsentLock
    /\ files = [n \in ProfileNames |-> AbsentFile]
    /\ execs = {}
    /\ stdout = << >>
    /\ stderr = << >>
    /\ exitCode = 0
    /\ log = << >>
    /\ hist = FreshHist(MaxRuns, AbsentLock, NoHist)
    /\ committed = {}

build_call ==
    /\ ~bOut.done
    /\ bOut' = [done |-> TRUE,
                servers |-> build_servers_json(bIn.server_names, bIn.templates,
                                               bIn.base_servers)]
    /\ LET out == bOut'.servers
           copies == {copy_deepcopy(CopiedFrom(bIn, out[k][1])) : k \in 1..Len(out)}
       IN heap' = [heap EXCEPT
                     !.objs = [obj \in DOMAIN heap.objs \cup copies |->
                                  IF obj \in DOMAIN heap.objs THEN heap.objs[obj]
                                  ELSE DictGet(out, obj[2])],
                     !.servers = [k \in 1..Len(out) |->
                                     <<out[k][1], copy_deepcopy(CopiedFrom(bIn, out[k][1]))>>]]
    /\ UNCHANGED <<bIn, sIn, sOut, hIn, hOut, pIn, pOut, wIn, wOut, configVars, flagVars, pc, idx, missing_vars,
                   profile_hashes, locked_hashes, success_count, lockFile, files, execs,
                   stdout, stderr, exitCode, log, hist, committed>>

\* what a caller's assignment obj["command"] = "modified" makes of a server definition
Modified(def) == Map(DictSet(def.v, "command", Str(<<"m">>)))

\* the caller changes a server definition of the returned set in place
mutate_result ==
    /\ bOut.done
    /\ "result" \notin heap.touched
    /\ \E k \in 1..Len(heap.servers) :
          heap' = [heap EXCEPT !.objs[heap.servers[k][2]] = Modified(@),
                               !.touched = @ \cup {"result"}]
    /\ UNCHANGED <<bIn, bOut, sIn, sOut, hIn, hOut, pIn, pOut, wIn, wOut, configVars, flagVars, pc, idx, missing_vars,
                   profile_hashes, locked_hashes, success_count, lockFile, files, execs,
                   stdout, stderr, exitCode, log, hist, committed>>

\* the caller changes a server definition of templates or of the base in place
mutate_source ==
    /\ bOut.done
    /\ "source" \notin heap.touched
    /\ \E obj \in SourceObjects(bIn) :
          heap' = [heap EXCEPT !.objs[obj] = Modified(@),
                               !.touched = @ \cup {"source"}]
    /\ UNCHANGED <<bIn, bOut, sIn, sOut, hIn, hOut, pIn, pOut, wIn, wOut, configVars, flagVars, pc, idx, missing_vars,
                   profile_hashes, locked_hashes, success_count, lockFile, files, execs,
                   stdout, stderr, exitCode, log, hist, committed>>

BuildNext ==
    \/ build_call
    \/ mutate_result
    \/ mutate_source

BuildSpec == BuildInit /\ [][BuildNext]_vars

----------------------------------------------------------------------------
(* substitute_env_vars called on its own, several times by one builder whose *)
(* verbose attribute the caller may set between the calls                   *)

\* calls of substitute_env_vars in one behaviour
MaxCalls == 2
\* pieces of the string that is substituted
MaxSegs == 2

\* a piece of a string: literal text, or a placeholder ${s}
Lit(s) == [kind |-> "lit", s |-> s]
Var(s) == [kind |-> "var", s |-> s]

Segments ==
    { Lit(<<"a">>), Lit(<<"$">>), Lit(<<"}">>),
      Var(<<"V">>), Var(<<"W">>), Var(<<"k", "e", "y">>) }

Render(seg) == IF seg.kind = "var" THEN <<"$", "{">> \o seg.s \o <<"}">> ELSE seg.s

RenderAll(segs) == Flatten([k \in 1..Len(segs) |-> Render(segs[k])])

\* the tree a string is part of
Wrap(wrap, text) ==
    IF wrap = "str" THEN Str(text)
    ELSE Map(<< <<"command", Str(text)>>,
                <<"other", List(<< Str(text), Prim("1") >>)>>,
                <<"${V}", List(<< Prim("true"), Prim("null") >>)>> >>)

SubstData == Wrap(sIn.wrap, RenderAll(sIn.segs))

LongValue == <<"s", "e", "c", "r", "e", "t", "v", "a", "l", "u", "e">>

\* the text of a placeholder of W, as the value of a variable
PlaceholderValue == <<"$", "{", "W", "}">>

SubstEnvChoices ==
    { {},
      { << <<"V">>, PlaceholderValue >> },
      { << <<"V">>, PlaceholderValue >>, << <<"W">>, <<"x">> >> },
      { << <<"V">>, <<"x">> >> },
      { << <<"k", "e", "y">>, LongValue >> },
      { << <<"V">>, LongValue >>, << <<"W">>, << >> >>, << <<"k", "e", "y">>, <<"x">> >> } }

\* the variables of a run, at rest
NoRun ==
    /\ cfgState = "ok"
    /\ base_servers = EmptyDict
    /\ profiles = << >>
    /\ targets = [n \in ProfileNames |-> NoTarget]
    /\ dry_run = FALSE
    /\ force = FALSE
    /\ profile = ""
    /\ pc = "exit"
    /\ idx = 0
    /\ profile_hashes = EmptyDict
    /\ locked_hashes = EmptyDict
    /\ success_count = 0
    /\ lockFile = AbsentLock
    /\ files = [n \in ProfileNames |-> AbsentFile]
    /\ execs = {}
    /\ stdout = << >>
    /\ exitCode = 0
    /\ log = << >>
    /\ hist = FreshHist(MaxRuns, AbsentLock, NoHist)
    /\ committed = {}

SubstInit ==
    /\ sIn \in [segs : SeqsUpTo(Segments, MaxSegs), wrap : {"str", "map"}]
    /\ sOut = << >>
    /\ env \in SubstEnvChoices
    /\ verbose \in BOOLEAN
    /\ check_env \in BOOLEAN
    /\ missing_vars = {}
    /\ stderr = << >>
    /\ bIn = [server_names |-> << >>, templates |-> templates, base_servers |-> EmptyDict]
    /\ bOut = [done |-> TRUE, servers |-> EmptyDict]
    /\ heap = NoHeap
    /\ hIn = NoHashInput
    /\ hOut = NoHashOutput
    /\ pIn = NoPathInput
    /\ pOut = NoPathOutput
    /\ wIn = NoDispatchInput
    /\ wOut = NoDispatchOutput
    /\ NoRun

\* builder.substitute_env_vars(data)
subst_call ==
    /\ Len(sOut) < MaxCalls
    /\ LET sub == SubstEnv(env, SubstData)
       IN /\ sOut' = Append(sOut, [verbose |-> verbose,
                                   value |-> sub.value,
                                   hash |-> hash_json_data(sub.value),
                                   payload |-> Map(<< <<"mcpServers", sub.value>> >>),
                                   lines |-> sub.lines])
          /\ missing_vars' = missing_vars \cup sub.missing
          /\ stderr' = stderr \o sub.lines
    /\ UNCHANGED <<configVars, dry_run, force, profile, verbose, check_env, pc, idx,
                   profile_hashes, locked_hashes, success_count, lockFile, files, execs,
                   stdout, exitCode, log, hist, committed, bIn, bOut, heap, sIn, hIn, hOut,
                   pIn, pOut, wIn, wOut>>

\* builder.verbose = not builder.verbose, between two calls
set_verbose ==
    /\ sOut # << >>
    /\ Len(sOut) < MaxCalls
    /\ verbose' = ~verbose
    /\ UNCHANGED <<configVars, dry_run, force, profile, check_env, pc, idx, missing_vars,
                   profile_hashes, locked_hashes, success_count, lockFile, files, execs,
                   stdout, stderr, exitCode, log, hist, committed, buildVars>>

SubstNext ==
    \/ subst_call
    \/ set_verbose

SubstSpec == SubstInit /\ [][SubstNext]_vars

----------------------------------------------------------------------------
(* hash_json_data called on its own, on a tree and on a reordering of it *)

\* the ways to put n things in another order
Orders(n) == {pi \in [1..n -> 1..n] : \A a \in 1..n : \E k \in 1..n : pi[k] = a}

RECURSIVE Reorderings(_)
\* the trees that differ from tree only in the order of the keys of its mappings
Reorderings(tree) ==
    IF tree.t = "map"
    THEN LET n == Len(tree.v)
             inner == [k \in 1..n |-> Reorderings(tree.v[k][2])]
             picks == {f \in [1..n -> UNION {inner[k] : k \in 1..n}] :
                          \A k \in 1..n : f[k] \in inner[k]}
         IN {Map([k \in 1..n |-> <<tree.v[pi[k]][1], f[pi[k]]>>]) :
                pi \in Orders(n), f \in picks}
    ELSE IF tree.t = "list"
    THEN LET n == Len(tree.v)
             inner == [k \in 1..n |-> Reorderings(tree.v[k])]
         IN {List(f) : f \in {g \in [1..n -> UNION {inner[k] : k \in 1..n}] :
                                  \A k \in 1..n : g[k] \in inner[k]}}
    ELSE {tree}

HashTrees ==
    { Map(<< <<"A", ServerDef(<<"x">>)>>,
             <<"B", Map(<< <<"command", Str(<<"y">>)>>,
                           <<"other", List(<< Map(<< <<"p", Prim("1")>>,
                                                     <<"q", Str(<<"x">>)>> >>) >>)>> >>)>>,
             <<"M", Prim("1")>> >>),
      Map(<< <<"A", Str(<<"x">>)>>, <<"B", Str(<<"x">>)>> >>),
      List(<< Map(<< <<"p", Str(<<"x">>)>>, <<"q", Str(<<"y">>)>> >>), Str(<<"x">>) >>) }

HashInputs == UNION {Reorderings(tree) : tree \in HashTrees}

HashInit ==
    /\ \E x \in HashInputs : \E y \in Reorderings(x) : hIn = [x |-> x, y |-> y]
    /\ hOut = [done |-> FALSE, hx |-> StaleHash, hy |-> StaleHash, writes |-> FALSE]
    /\ pIn = NoPathInput
    /\ pOut = NoPathOutput
    /\ wIn = NoDispatchInput
    /\ wOut = NoDispatchOutput
    /\ env = {}
    /\ verbose = FALSE
    /\ check_env = TRUE
    /\ missing_vars = {}
    /\ stderr = << >>
    /\ bIn = [server_names |-> << >>, templates |-> templates, base_servers |-> EmptyDict]
    /\ bOut = [done |-> TRUE, servers |-> EmptyDict]
    /\ heap = NoHeap
    /\ sIn = NoSubstInput
    /\ sOut = << >>
    /\ NoRun

\* hash_json_data(x) and hash_json_data(y), and whether process_target would
\* dispatch a profile whose document is y when the lock file holds the hash of x
hash_call ==
    /\ ~hOut.done
    /\ hOut' = [done |-> TRUE,
                hx |-> hash_json_data(hIn.x),
                hy |-> hash_json_data(hIn.y),
                writes |-> should_write(<< <<"p", hash_json_data(hIn.x)>> >>, "p",
                                        hash_json_data(hIn.y))]
    /\ UNCHANGED <<configVars, flagVars, pc, idx, missing_vars, profile_hashes,
                   locked_hashes, success_count, lockFile, files, execs, stdout, stderr,
                   exitCode, log, hist, committed, bIn, bOut, heap, sIn, sOut, hIn,
                   pIn, pOut, wIn, wOut>>

HashNext == hash_call

HashSpec == HashInit /\ [][HashNext]_vars

----------------------------------------------------------------------------
(* write_json_path called on its own, then read_json_path on the file it left *)

PathFiles ==
    { AbsentFile,
      [state |-> "ok", data |-> EmptyDict],
      [state |-> "ok", data |-> << <<"other", ServerDef(<<"o">>)>> >>],
      [state |-> "ok",
       data |-> << <<"mcpServers", Map(<< <<"A", ServerDef(<<"o">>)>> >>)>>,
                   <<"other", List(<<Str(<<"o">>), Prim("1")>>)>> >>],
      [state |-> "ok",
       data |-> << <<"p", Map(<< <<"A", Str(<<"x">>)>>, <<"q", Prim("0")>> >>)>>,
                   <<"other", Prim("null")>> >>] }

PathValues ==
    { << <<"B", ServerDef(<<"x">>)>> >>,
      << <<"M", Map(<< <<"command", Str(<<"c">>)>>,
                       <<"other", List(<<Str(<<"a">>), Prim("1"), Map(EmptyDict)>>)>> >>)>>,
         <<"A", ServerDef(<<"$", "{", "V", "}">>)>> >>,
      << <<"A", Map(EmptyDict)>> >> }

Paths == { << >>, <<"mcpServers">>, <<"p", "q">> }

PathInit ==
    /\ \E file \in PathFiles : \E value \in PathValues : \E path \in Paths :
       \E parent \in (IF file.state = "absent" THEN BOOLEAN ELSE {TRUE}) :
           pIn = [file |-> file, value |-> value, path |-> path, parent |-> parent]
    /\ pOut = [written |-> FALSE, file |-> pIn.file, parent |-> pIn.parent, read |-> << >>]
    /\ env = {}
    /\ verbose = FALSE
    /\ check_env = TRUE
    /\ missing_vars = {}
    /\ stderr = << >>
    /\ bIn = [server_names |-> << >>, templates |-> templates, base_servers |-> EmptyDict]
    /\ bOut = [done |-> TRUE, servers |-> EmptyDict]
    /\ heap = NoHeap
    /\ sIn = NoSubstInput
    /\ sOut = << >>
    /\ hIn = NoHashInput
    /\ hOut = NoHashOutput
    /\ wIn = NoDispatchInput
    /\ wOut = NoDispatchOutput
    /\ NoRun

\* write_json_path(file, value, path)
path_write ==
    /\ ~pOut.written
    /\ pOut' = [written |-> TRUE,
                file |-> write_json_path(pIn.file, pIn.value, pIn.path),
                parent |-> mkdir_parents(pIn.parent),
                read |-> << >>]
    /\ UNCHANGED <<configVars, flagVars, pc, idx, missing_vars, profile_hashes,
                   locked_hashes, success_count, lockFile, files, execs, stdout, stderr,
                   exitCode, log, hist, committed, bIn, bOut, heap, sIn, sOut, hIn, hOut,
                   pIn, wIn, wOut>>

\* read_json_path(file, path) on the file write_json_path left
path_read ==
    /\ pOut.written
    /\ pOut.read = << >>
    /\ pOut' = [pOut EXCEPT !.read = <<read_json_path(pOut.file, pIn.path)>>]
    /\ UNCHANGED <<configVars, flagVars, pc, idx, missing_vars, profile_hashes,
                   locked_hashes, success_count, lockFile, files, execs, stdout, stderr,
                   exitCode, log, hist, committed, bIn, bOut, heap, sIn, sOut, hIn, hOut,
                   pIn, wIn, wOut>>

PathNext == path_write \/ path_read

PathSpec == PathInit /\ [][PathNext]_vars

----------------------------------------------------------------------------
(* write_target called on its own, in preview mode and outside it *)

TargetPaths ==
    { <<"o", ".", "j", "s", "o", "n">>, <<"o", ".", "j", "s", "o", "n", "5">>,
      <<"o", ".", "t", "x", "t">>, <<"o", ".", "J", "S", "O", "N">>, <<"j", "s", "o", "n">> }

\* a number, a list: neither a string nor a mapping
OtherTarget == [type |-> "other"]

OutTexts ==
    { << >>,
      <<"E", "r", "r", "o", "r", " ", "o", "c", "c", "u", "r", "r", "e", "d">>,
      <<"C", "o", "n", "f", "i", "g", "u", "r", "a", "t", "i", "o", "n", " ", "s", "a", "v", "e", "d", " ", "s", "u", "c", "c", "e", "s", "s", "f", "u", "l", "l", "y">>,
      <<"U", "P", "D", "A", "T", "E", "D">>,
      <<"C", "o", "m", "p">>, <<"l", "e", "t", "e", ".">>,
      <<"s", "u", "c", "c", "e", "s">>,
      <<"o", "k">> }

ReturnCodes == {0, 1, 2}

\* what the file system or the command does when write_target gets that far
DispatchInputs ==
    {[path |-> path, target_spec |-> StrTarget(path), servers_json |-> value,
      fileOK |-> ok, returncode |-> 0, stdout |-> << >>, stderr |-> << >>] :
        path \in TargetPaths, value \in PathValues, ok \in BOOLEAN}
    \cup
    {[path |-> << >>, target_spec |-> spec, servers_json |-> value,
      fileOK |-> TRUE, returncode |-> 0, stdout |-> << >>, stderr |-> << >>] :
        spec \in {InvalidTarget, OtherTarget}, value \in PathValues}
    \cup
    {[path |-> << >>, target_spec |-> ShellTarget,
      servers_json |-> << <<"B", ServerDef(<<"x">>)>> >>,
      fileOK |-> TRUE, returncode |-> code, stdout |-> out, stderr |-> err] :
        code \in ReturnCodes, out \in OutTexts, err \in OutTexts}

\* what write_target sees of the outcome
IOOf(in) ==
    [fileOK |-> in.fileOK, returncode |-> in.returncode,
     has_success_message |-> has_success_message(in.stdout, in.stderr)]

DispatchInit ==
    /\ wIn \in DispatchInputs
    /\ wOut = [done |-> FALSE, returned |-> << >>, raised |-> FALSE]
    /\ dry_run \in BOOLEAN
    /\ cfgState = "ok"
    /\ base_servers = EmptyDict
    /\ profiles = << >>
    /\ targets = [n \in ProfileNames |-> NoTarget]
    /\ force = FALSE
    /\ profile = ""
    /\ pc = "exit"
    /\ idx = 0
    /\ profile_hashes = EmptyDict
    /\ locked_hashes = EmptyDict
    /\ success_count = 0
    /\ lockFile = AbsentLock
    /\ files = [n \in ProfileNames |-> AbsentFile]
    /\ execs = {}
    /\ stdout = << >>
    /\ exitCode = 0
    /\ log = << >>
    /\ hist = FreshHist(MaxRuns, AbsentLock, NoHist)
    /\ committed = {}
    /\ env = {}
    /\ verbose = FALSE
    /\ check_env = TRUE
    /\ missing_vars = {}
    /\ stderr = << >>
    /\ bIn = [server_names |-> << >>, templates |-> templates, base_servers |-> EmptyDict]
    /\ bOut = [done |-> TRUE, servers |-> EmptyDict]
    /\ heap = NoHeap
    /\ sIn = NoSubstInput
    /\ sOut = << >>
    /\ hIn = NoHashInput
    /\ hOut = NoHashOutput
    /\ pIn = NoPathInput
    /\ pOut = NoPathOutput

\* write_target(target_spec, servers_json); the file of profile p stands for the
\* file at the path
dispatch_call ==
    /\ ~wOut.done
    /\ IF write_target_raises(wIn.target_spec, wIn.servers_json, IOOf(wIn))
       THEN /\ wOut' = [done |-> TRUE, returned |-> << >>, raised |-> TRUE]
            /\ UNCHANGED <<files, execs>>
       ELSE /\ wOut' = [done |-> TRUE,
                        returned |-> <<write_target_result(wIn.target_spec, IOOf(wIn))>>,
                        raised |-> FALSE]
            /\ write_target("p", wIn.target_spec, wIn.servers_json, IOOf(wIn))
    /\ UNCHANGED <<configVars, flagVars, pc, idx, missing_vars, profile_hashes,
                   locked_hashes, success_count, lockFile, stdout, stderr,
                   exitCode, log, hist, committed, bIn, bOut, heap, sIn, sOut, hIn, hOut,
                   pIn, pOut, wIn>>

DispatchNext == dispatch_call

DispatchSpec == DispatchInit /\ [][DispatchNext]_vars

----------------------------------------------------------------------------
(* Properties of the build pass *)

BuildMode == profile = ""

BuiltServers(k) == build_servers_json(profiles[k][2], templates, base_servers)

BuiltHash(k) == hash_json_data(substitute_env_vars(env, Map(BuiltServers(k))))

Dispatches(name) == Cardinality({k \in 1..Len(log) : log[k].profile = name})

\* profile k of the configuration went through the loop of the current invocation
Processed(k) == BuildMode /\ idx > k /\ targets[profiles[k][1]] # NoTarget

\* the conditions under which the specification says a profile is dispatched
MustDispatch(k) ==
    \/ force
    \/ ~HasKey(locked_hashes, profiles[k][1])
    \/ DictGet(locked_hashes, profiles[k][1]) # BuiltHash(k)

DispatchedOnce(k) ==
    /\ Dispatches(profiles[k][1]) = 1
    /\ \A j \in 1..Len(log) : log[j].profile = profiles[k][1] => log[j].hash = BuiltHash(k)
    /\ HasKey(profile_hashes, profiles[k][1])
    /\ DictGet(profile_hashes, profiles[k][1]) = BuiltHash(k)

SecondPlainRun == hist.prev.valid /\ BuildMode /\ ~dry_run /\ ~force

C2_LockHoldsCommittedHashes ==
    lockFile.state = "ok" =>
        \A k \in 1..Len(lockFile.entries) :
            <<lockFile.entries[k][1], lockFile.entries[k][2]>> \in committed

\* C3, as stated: every profile with a template list and a target that has no
\* locked hash, or is forced, or whose hash differs, is dispatched exactly once
\* and its new hash is recorded
C3_DispatchWhenChanged ==
    \A k \in 1..Len(profiles) :
        (Processed(k) /\ MustDispatch(k)) => DispatchedOnce(k)

\* C3, amended: the same for the profiles whose resolved server set is not empty
C3_DispatchWhenChangedNonEmpty ==
    \A k \in 1..Len(profiles) :
        (Processed(k) /\ BuiltServers(k) # EmptyDict /\ MustDispatch(k)) => DispatchedOnce(k)

C3_Witness ==
    \E k \in 1..Len(profiles) :
        /\ Processed(k) /\ BuiltServers(k) # EmptyDict
        /\ force
        /\ HasKey(locked_hashes, profiles[k][1])
        /\ DictGet(locked_hashes, profiles[k][1]) = BuiltHash(k)
        /\ DispatchedOnce(k)

C5_PreviewChangesNothing ==
    [][dry_run =>
         /\ lockFile' = lockFile
         /\ files' = files
         /\ execs' = execs
         /\ \A k \in 1..Len(log') : log'[k].ok]_vars

C5_Witness ==
    /\ dry_run /\ pc = "exit" /\ hist.summary
    /\ \E k \in 1..Len(log) : targets[log[k].profile] = FileTarget
    /\ \E k \in 1..Len(log) : targets[log[k].profile] = ShellTarget
    /\ lockFile.state = "absent"

\* C6: in single-profile extraction mode the run resolves only that profile,
\* prints its envelope and stops; the lock file is neither read nor written and
\* nothing is dispatched
C6_ExtractTouchesNothing ==
    ~BuildMode =>
        /\ ~hist.lockRead
        /\ locked_hashes = EmptyDict
        /\ lockFile = hist.lockAtStart
        /\ log = << >>
        /\ execs = {}
        /\ files = [n \in ProfileNames |-> AbsentFile]
        /\ hist.resolved \subseteq {profile}
        /\ pc \in {"load_config", "extract", "exit"}
        /\ (pc = "exit" /\ exitCode = 0) =>
              stdout = << Map(<< <<"mcpServers",
                                   substitute_env_vars(env,
                                       Map(build_servers_json(ServerNamesOf(profile),
                                                              templates, base_servers)))>> >>) >>

C6_Witness ==
    /\ ~BuildMode /\ pc = "exit" /\ exitCode = 0
    /\ stdout # << >>
    /\ lockFile.state = "ok"
    /\ Len(profiles) = 2
    /\ targets[profile] # NoTarget

\* every profile with a target was resolved, hashed when it has servers, and
\* dispatched when it had to be
AllProfilesProcessed ==
    \A k \in 1..Len(profiles) :
        targets[profiles[k][1]] # NoTarget =>
            /\ profiles[k][1] \in hist.resolved
            /\ BuiltServers(k) # EmptyDict =>
                  /\ profiles[k][1] \in hist.hashed
                  /\ MustDispatch(k) => Dispatches(profiles[k][1]) = 1

\* C7, as stated: for any configuration that loads, the pass goes through all
\* profiles whatever fails, and reaches the summary and the lock-save step
C7_PassGoesThroughAllProfiles ==
    (cfgState = "ok" /\ BuildMode /\ pc = "exit") =>
        /\ AllProfilesProcessed
        /\ hist.summary
        /\ hist.saveStep

\* C7, amended: the same for a configuration with at least one profile and at
\* least one target: a pass that enters the profile loop ends with every profile
\* processed, the summary printed and the lock-save step taken
C7_PassGoesThroughAllProfilesOfLoop ==
    /\ (cfgState = "ok" /\ BuildMode /\ profiles # << >> /\ ~NoTargets /\ pc = "exit") =>
          /\ AllProfilesProcessed
          /\ hist.summary
          /\ hist.saveStep
    /\ pc \in {"save", "save_write", "report"} =>
          /\ AllProfilesProcessed
          /\ hist.summary
    /\ pc = "loop" => \A k \in 1..(idx - 1) : profiles[k][1] \in hist.resolved
                                               \/ targets[profiles[k][1]] = NoTarget

C7_Witness ==
    /\ pc = "exit" /\ BuildMode /\ Len(profiles) = 2 /\ hist.summary
    /\ Len(log) = 2
    /\ ~log[1].ok
    /\ log[2].ok
    /\ profiles[1][2] = <<"M", "A">>

\* C8, as stated: when the configuration file exists and parses, run never
\* ends with a failure exit
C8_FailureOnlyOnConfigLoad ==
    (pc = "exit" /\ cfgState = "ok") => exitCode = 0

\* C8, amended: a failure exit happens only when the configuration does not load,
\* or in extraction mode when the requested profile is not defined or resolves
\* to no server
C8_FailureOnlyOnConfigLoadOrExtract ==
    (pc = "exit" /\ exitCode # 0) =>
        \/ cfgState # "ok"
        \/ /\ ~BuildMode
           /\ \/ ~ProfileDefined(profile)
              \/ build_servers_json(ServerNamesOf(profile), templates, base_servers)
                    = EmptyDict

C8_Witness ==
    /\ pc = "exit" /\ cfgState = "ok" /\ BuildMode /\ exitCode = 0
    /\ \E k \in 1..Len(log) : ~log[k].ok
    /\ \E k \in 1..Len(profiles) : targets[profiles[k][1]] = NoTarget

\* C9: when the configuration file is missing or unparsable the run exits with
\* status 1 at once: no lock file access, no profile resolved, nothing dispatched
C9_AbortOnBadConfig ==
    cfgState # "ok" =>
        /\ pc \in {"load_config", "exit"}
        /\ pc = "exit" => exitCode = 1
        /\ ~hist.lockRead
        /\ lockFile = hist.lockAtStart
        /\ hist.resolved = {}
        /\ log = << >>
        /\ execs = {}
        /\ profile_hashes = EmptyDict

C9_Witness ==
    /\ cfgState = "unparsable" /\ pc = "exit" /\ exitCode = 1
    /\ lockFile.state = "ok"

----------------------------------------------------------------------------
(* Properties of the missing-variable set *)

\* profile k went through substitute_env_vars in the current pass
Substituted(k) == Processed(k) /\ BuiltServers(k) # EmptyDict

\* the names the document of profile k leaves unresolved
MissingOf(k) == SubstMissing(env, Map(BuiltServers(k)))

Reports == SelectSeq(stderr, LAMBDA line : line.kind = "report")

\* the set holds the names left unresolved by the profiles substituted so far,
\* and is reported at most once, at the end of the pass, in lexical order
\* without repetition, when it is not empty and the check is enabled
MissingSetIsWhatWasFound ==
    /\ missing_vars = UNION {MissingOf(k) : k \in {j \in 1..Len(profiles) : Substituted(j)}}
    /\ Len(Reports) <= 1
    /\ Reports # << >> =>
          /\ pc = "exit" /\ check_env /\ missing_vars # {}
          /\ {Reports[1].shown[i] : i \in 1..Len(Reports[1].shown)} = missing_vars
          /\ \A i \in 1..Len(Reports[1].shown) : \A j \in (i + 1)..Len(Reports[1].shown) :
                NameRank(Reports[1].shown[i]) < NameRank(Reports[1].shown[j])
    /\ (pc = "exit" /\ hist.summary /\ missing_vars # {} /\ check_env) => Reports # << >>

\* C15: during a build pass the missing-variable set only grows; it holds exactly
\* the names found unresolved in the profiles substituted so far, skipped ones
\* included; at the end it is reported once, deduplicated and in lexical order,
\* if and only if it is not empty and missing-variable checking is enabled
C15_MissingSetAccumulates ==
    /\ []MissingSetIsWhatWasFound
    /\ [][missing_vars \subseteq missing_vars']_vars

C15_Witness ==
    /\ pc = "exit" /\ Len(profiles) = 2
    /\ Substituted(1) /\ Substituted(2)
    /\ MissingOf(1) \cap MissingOf(2) # {}
    /\ Dispatches(profiles[1][1]) = 0
    /\ Reports = << MissingReport({<<"V">>, <<"W">>}) >>
    /\ Reports[1].shown = << <<"V">>, <<"W">> >>

RECURSIVE ContainsText(_, _)
\* some string of the tree holds text
ContainsText(tree, text) ==
    IF tree.t = "str" THEN Contains(tree.v, text)
    ELSE IF tree.t = "map" THEN \E k \in 1..Len(tree.v) : ContainsText(tree.v[k][2], text)
    ELSE IF tree.t = "list" THEN \E k \in 1..Len(tree.v) : ContainsText(tree.v[k], text)
    ELSE FALSE

Document(k) == substitute_env_vars(env, Map(BuiltServers(k)))

\* C16: a profile whose document has unresolved placeholders is dispatched, or
\* skipped, by the force flag and the locked hash alone, whatever check_env is;
\* the document dispatched holds the placeholders as they were written, and the
\* profile gets its lock entry
C16_MissingNeverBlocksWrite ==
    \A k \in 1..Len(profiles) :
        (Substituted(k) /\ MissingOf(k) # {}) =>
            LET name == profiles[k][1]
            IN /\ MustDispatch(k) => DispatchedOnce(k)
               /\ ~MustDispatch(k) => Dispatches(name) = 0
               /\ HasKey(profile_hashes, name)
               /\ DictGet(profile_hashes, name) = BuiltHash(k)
               /\ \A n \in MissingOf(k) : ContainsText(Document(k), Render(Var(n)))
               /\ (~dry_run /\ targets[name] = ShellTarget /\ Dispatches(name) = 1) =>
                     <<name, Map(<< <<"mcpServers", Document(k)>> >>)>> \in execs
               /\ (/\ ~dry_run /\ targets[name] = FileTarget
                   /\ \E j \in 1..Len(log) : log[j].profile = name /\ log[j].ok) =>
                     files[name] = write_json_path(AbsentFile, Document(k).v, <<"mcpServers">>)
               /\ (pc = "exit" /\ hist.summary /\ ~dry_run /\ ~hist.saveFailed) =>
                     /\ lockFile.state = "ok"
                     /\ HasKey(lockFile.entries, name)
                     /\ DictGet(lockFile.entries, name) = BuiltHash(k)

C16_Witness ==
    /\ pc = "exit" /\ check_env /\ Reports # << >>
    /\ Len(profiles) = 2
    /\ Substituted(1) /\ MissingOf(1) # {}
    /\ Substituted(2) /\ MissingOf(2) # {}
    /\ DispatchedOnce(1) /\ DispatchedOnce(2)
    /\ log[1].ok /\ log[2].ok
    /\ targets[profiles[1][1]] = FileTarget
    /\ targets[profiles[2][1]] = ShellTarget
    /\ lockFile.state = "ok" /\ Len(lockFile.entries) = 2

----------------------------------------------------------------------------
(* Properties of the lock file *)

\* the invocation found no lock file, or one that does not parse
LockUnusable == hist.lockAtStart.state \in {"absent", "corrupt"}

AfterLoadLock == BuildMode /\ cfgState = "ok" /\ pc \notin {"load_config", "load_lock"}

\* load_lock_file returned with an empty mapping and the run went on
LoadedAsEmpty ==
    /\ locked_hashes = EmptyDict
    /\ exitCode = 0
    /\ (profiles # << >> /\ ~NoTargets /\ pc = "exit") => hist.summary

\* C19, as stated: an absent or unparsable lock file is never fatal; the locked
\* mapping is empty, the run proceeds and every profile is dispatched
C19_UnusableLockIsEmptyLock ==
    (AfterLoadLock /\ LockUnusable) =>
        /\ LoadedAsEmpty
        /\ \A k \in 1..Len(profiles) : idx > k => DispatchedOnce(k)

\* C19, amended: the same, where the profiles dispatched are those that have a
\* target and a resolved server set that is not empty
C19_UnusableLockIsEmptyLockForBuiltProfiles ==
    (AfterLoadLock /\ LockUnusable) =>
        /\ LoadedAsEmpty
        /\ \A k \in 1..Len(profiles) :
              (Processed(k) /\ BuiltServers(k) # EmptyDict) => DispatchedOnce(k)

C19_Witness ==
    /\ AfterLoadLock /\ hist.lockAtStart = CorruptLock /\ hist.lockRead
    /\ ~force /\ pc = "exit" /\ hist.summary
    /\ Len(profiles) = 2
    /\ \A k \in 1..2 : Processed(k) /\ BuiltServers(k) # EmptyDict /\ DispatchedOnce(k)

\* C20: save_lock_file leaves the lock file as it is when no hash was recorded;
\* otherwise the file afterwards holds exactly the recorded mapping; a failure
\* to write is reported and the run ends normally
C20_SaveLockFile ==
    (BuildMode /\ ~dry_run /\ hist.saveStep /\ pc \in {"report", "exit"}) =>
        /\ profile_hashes = EmptyDict => lockFile = hist.lockAtStart /\ ~hist.saveFailed
        /\ (profile_hashes # EmptyDict /\ ~hist.saveFailed) => lockFile = LockOf(profile_hashes)
        /\ hist.saveFailed =>
              /\ \E i \in 1..Len(stderr) : stderr[i] = LockWarning
              /\ exitCode = 0

C20_Witness ==
    /\ BuildMode /\ ~dry_run /\ hist.saveStep /\ pc = "exit"
    /\ idx > Len(profiles) /\ Len(profiles) > 0
    /\ profile_hashes = EmptyDict
    /\ lockFile = AbsentLock

\* the target files hold the documents of the file dispatches that succeeded
CompletedWritesInPlace ==
    \A j \in 1..Len(log) :
        (~dry_run /\ log[j].ok /\ targets[log[j].profile] = FileTarget) =>
            /\ files[log[j].profile].state = "ok"
            /\ hash_json_data(DictGet(files[log[j].profile].data, "mcpServers")) = log[j].hash

\* C21: the lock file is flushed at most once per run and only after the profile
\* loop; a run cancelled before the flush step leaves the lock file as it was at
\* the start, and the cancellation undoes no target write
C21_LockFlushedOnceAtEnd ==
    /\ []((pc = "cancelled" /\ ~hist.saveStep) =>
            /\ lockFile = hist.lockAtStart
            /\ CompletedWritesInPlace)
    /\ [][lockFile' # lockFile =>
            /\ pc \in {"save", "save_write"}
            /\ hist.summary /\ idx > Len(profiles)]_vars
    /\ [][pc' = "save" => (pc = "loop" /\ ~hist.saveStep)]_vars
    /\ [][pc' = "cancelled" => (files' = files /\ execs' = execs)]_vars

C21_Witness ==
    /\ pc = "cancelled" /\ ~hist.saveStep /\ ~dry_run
    /\ idx > Len(profiles) /\ Len(profiles) = 2
    /\ profile_hashes # EmptyDict
    /\ lockFile.state = "ok" /\ lockFile = hist.lockAtStart
    /\ lockFile # LockOf(profile_hashes)
    /\ \E j \in 1..Len(log) : log[j].ok /\ targets[log[j].profile] = FileTarget
    /\ CompletedWritesInPlace

\* C22: the lock file on disk is at every moment absent, the complete previous
\* content or the complete new mapping
C22_LockReplacedAtomically ==
    \/ lockFile.state = "absent"
    \/ lockFile = hist.lockAtStart
    \/ lockFile = LockOf(profile_hashes)

----------------------------------------------------------------------------
(* Properties of write_json_path and read_json_path *)

DataBefore == IF pIn.file.state = "absent" THEN EmptyDict ELSE pIn.file.data

RECURSIVE KeptOutside(_, _, _)
\* after differs from before at the path only
KeptOutside(before, after, path) ==
    /\ Keys(after) = Keys(before) \cup {path[1]}
    /\ \A key \in Keys(before) \ {path[1]} : DictGet(after, key) = DictGet(before, key)
    /\ Len(path) > 1 =>
          /\ DictGet(after, path[1]).t = "map"
          /\ KeptOutside(IF HasKey(before, path[1])
                         THEN DictGet(before, path[1]).v ELSE EmptyDict,
                         DictGet(after, path[1]).v, Tail(path))

\* C23: write_json_path with a path other than "." leaves the value at the path
\* and every key outside the path as it was; with "." the file holds the value
\* alone; the parent directory exists afterwards
C23_WriteTouchesOnlyThePath ==
    pOut.written =>
        /\ pOut.file.state = "ok"
        /\ pOut.parent
        /\ IF pIn.path = << >>
           THEN pOut.file.data = pIn.value
           ELSE /\ dpath_get(Map(pOut.file.data), pIn.path)
                      = [ok |-> TRUE, value |-> Map(pIn.value)]
                /\ KeptOutside(DataBefore, pOut.file.data, pIn.path)

C23_Witness ==
    /\ pOut.written
    /\ pIn.path = <<"p", "q">>
    /\ HasKey(DataBefore, "p") /\ HasKey(DictGet(DataBefore, "p").v, "q")
    /\ DictGet(DictGet(pOut.file.data, "p").v, "A") = Str(<<"x">>)
    /\ DictGet(DictGet(pOut.file.data, "p").v, "q") = Map(pIn.value)
    /\ DictGet(pOut.file.data, "other") = Prim("null")
    /\ Len(pIn.value) = 2

\* C24: a server set written at .mcpServers into a file with any earlier
\* content, or into no file, is what read_json_path returns at .mcpServers
C24_WriteThenReadGivesValue ==
    (pOut.read # << >> /\ pIn.path = <<"mcpServers">>) =>
        pOut.read[1] = [ok |-> TRUE, value |-> Map(pIn.value)]

C24_Witness ==
    /\ pOut.read # << >> /\ pIn.path = <<"mcpServers">>
    /\ HasKey(DataBefore, "mcpServers")
    /\ DictGet(DataBefore, "mcpServers") # Map(pIn.value)
    /\ Len(pIn.value) = 2
    /\ pOut.read[1].ok /\ pOut.read[1].value = Map(pIn.value)

----------------------------------------------------------------------------
(* Properties of write_target *)

\* some marker is in the text, letter for letter whatever the case
MarkerIn(text) ==
    \E n \in 1..Len(success_patterns) :
        \E i \in 1..Len(text) :
            /\ i + Len(success_patterns[n]) - 1 <= Len(text)
            /\ \A j \in 1..Len(success_patterns[n]) :
                  lower(<<text[i + j - 1]>>) = lower(<<success_patterns[n][j]>>)

\* C25: a dispatch to an external command succeeds exactly when the exit code is
\* zero or the output, standard output and standard error together, holds one
\* of the success markers in any case
C25_ShellWriteClassification ==
    (wOut.done /\ ~dry_run /\ wIn.target_spec = ShellTarget) =>
        /\ ~wOut.raised
        /\ wOut.returned = <<wIn.returncode = 0 \/ MarkerIn(wIn.stdout \o wIn.stderr)>>

C25_Witness ==
    /\ wOut.done /\ ~dry_run /\ wIn.target_spec = ShellTarget
    /\ wIn.returncode = 2
    /\ wIn.stdout = <<"E", "r", "r", "o", "r", " ", "o", "c", "c", "u", "r", "r", "e", "d">>
    /\ wIn.stderr = <<"U", "P", "D", "A", "T", "E", "D">>
    /\ wOut.returned = <<TRUE>>
    /\ execs # {}

ReturnsBoolean == ~wOut.raised /\ Len(wOut.returned) = 1 /\ wOut.returned[1] \in BOOLEAN

\* C26, as stated: write_target never throws and returns a boolean; false for a
\* mapping without a write key, for a value that is neither a string nor a
\* mapping and when the file write raises; true for a file path string whose
\* write raises nothing
C26_WriteTargetNeverThrows ==
    wOut.done =>
        /\ ReturnsBoolean
        /\ wIn.target_spec = InvalidTarget => wOut.returned = <<FALSE>>
        /\ wIn.target_spec = OtherTarget => wOut.returned = <<FALSE>>
        /\ (wIn.target_spec.type = "str" /\ ~dry_run /\ ~wIn.fileOK) =>
              wOut.returned = <<FALSE>>
        /\ (wIn.target_spec.type = "str" /\ wIn.fileOK) => wOut.returned = <<TRUE>>

\* C26, amended: in preview mode every call returns true; outside it the string
\* targets are those that end in .json or .json5, any other string returns false
C26_WriteTargetNeverThrowsOutsidePreview ==
    wOut.done =>
        /\ ReturnsBoolean
        /\ dry_run => wOut.returned = <<TRUE>>
        /\ ~dry_run =>
              /\ wIn.target_spec = InvalidTarget => wOut.returned = <<FALSE>>
              /\ wIn.target_spec = OtherTarget => wOut.returned = <<FALSE>>
              /\ wIn.target_spec.type = "str" =>
                    IF endswith(wIn.path, DotJson) \/ endswith(wIn.path, DotJson5)
                    THEN /\ wOut.returned = <<wIn.fileOK>>
                         /\ wIn.fileOK =>
                               read_json_path(files["p"], <<"mcpServers">>)
                                   = [ok |-> TRUE, value |-> Map(wIn.servers_json)]
                         /\ ~wIn.fileOK => files["p"] = AbsentFile
                    ELSE wOut.returned = <<FALSE>> /\ files["p"] = AbsentFile

C26_Witness ==
    /\ wOut.done /\ ~dry_run
    /\ wIn.path = <<"o", ".", "j", "s", "o", "n", "5">>
    /\ ~wIn.fileOK
    /\ ~wOut.raised /\ wOut.returned = <<FALSE>>

\* C27: a build pass never waits without end for an external write command:
\* a command that does not exit is given up after a timeout, the dispatch
\* counts as failed and the pass goes on with the next profile
C27_PassTerminates == pc # "blocked"

AfterPass == BuildMode /\ cfgState = "ok" /\ ~dry_run /\ pc = "exit"

\* the lock file maps the profiles hashed in this pass, and no other, to the
\* hashes built in this pass
LockHoldsThisPass ==
    /\ lockFile.state = "ok"
    /\ Keys(lockFile.entries) = hist.hashed
    /\ \A k \in 1..Len(profiles) :
          profiles[k][1] \in hist.hashed =>
              DictGet(lockFile.entries, profiles[k][1]) = BuiltHash(k)

----------------------------------------------------------------------------
(* Properties of the profile loop *)

\* the profiles without a target that the loop has gone past
SkippedForNoTarget ==
    {k \in 1..Len(profiles) : BuildMode /\ idx > k /\ targets[profiles[k][1]] = NoTarget}

\* C28: a profile without a target is reported and skipped: it is not resolved,
\* hashed or dispatched and gets no lock entry; the profiles that have a target
\* are still processed, and the success count leaves it out
C28_NoTargetProfileSkipped ==
    /\ \A k \in SkippedForNoTarget :
          LET name == profiles[k][1]
          IN /\ Cardinality({i \in 1..Len(stderr) : stderr[i] = NoTargetLine(name)}) = 1
             /\ name \notin hist.resolved \cup hist.hashed \cup hist.succeeded
             /\ Dispatches(name) = 0
             /\ files[name] = AbsentFile
             /\ \A e \in execs : e[1] # name
             /\ ~HasKey(profile_hashes, name)
             /\ (lockFile.state = "ok" /\ HasKey(lockFile.entries, name)) =>
                   /\ lockFile = hist.lockAtStart
                   /\ profile_hashes = EmptyDict \/ dry_run \/ hist.saveFailed \/ ~hist.saveStep
    /\ SkippedForNoTarget # {} =>
          /\ success_count <= Len(profiles) - Cardinality(SkippedForNoTarget)
          /\ pc = "exit" =>
                /\ hist.summary
                /\ \A j \in 1..Len(profiles) :
                      targets[profiles[j][1]] # NoTarget => profiles[j][1] \in hist.resolved

C28_Witness ==
    /\ pc = "exit" /\ Len(profiles) = 2 /\ ~dry_run
    /\ SkippedForNoTarget = {1}
    /\ HasKey(hist.lockAtStart.entries, profiles[1][1])
    /\ lockFile.state = "ok" /\ ~HasKey(lockFile.entries, profiles[1][1])
    /\ DispatchedOnce(2) /\ log[1].ok
    /\ success_count = 1

----------------------------------------------------------------------------
(* Properties of build_servers_json *)

HasName(def) == def.t = "map" /\ HasKey(def.v, "name")

\* the output key the specification gives an entry: its name field, else its key
OutputKey(entry) ==
    IF HasName(entry[2]) THEN DictGet(entry[2].v, "name").v[1] ELSE entry[1]

WithoutName(def) ==
    IF def.t = "map" THEN Map(SelectSeq(def.v, LAMBDA e : e[1] # "name")) ELSE def

RECURSIVE ListedTemplates(_, _)
ListedTemplates(server_names, tpls) ==
    IF server_names = << >> THEN << >>
    ELSE IF HasKey(tpls, Head(server_names))
         THEN << <<Head(server_names), DictGet(tpls, Head(server_names))>> >>
                  \o ListedTemplates(Tail(server_names), tpls)
         ELSE ListedTemplates(Tail(server_names), tpls)

\* the entries that go into the result: the base entries, then the listed templates
InputEntries == bIn.base_servers \o ListedTemplates(bIn.server_names, bIn.templates)

KeyPos(d, key) == CHOOSE k \in 1..Len(d) : d[k][1] = key

LastForKey(es, i) == \A j \in (i + 1)..Len(es) : OutputKey(es[j]) # OutputKey(es[i])

FirstForKey(es, i) == \A j \in 1..(i - 1) : OutputKey(es[j]) # OutputKey(es[i])

\* C10: the result holds the base entries first, then the templates in list
\* order; of two entries that resolve to one output key the later one gives the
\* value stored under that key, whole
C10_OrderAndPrecedence ==
    bOut.done =>
        LET es == InputEntries
            out == bOut.servers
        IN /\ \A i \in 1..Len(es) : \A j \in (i + 1)..Len(es) :
                 (/\ ~HasName(es[i][2]) /\ ~HasName(es[j][2])
                  /\ FirstForKey(es, i) /\ FirstForKey(es, j))
                 => /\ HasKey(out, es[i][1]) /\ HasKey(out, es[j][1])
                    /\ KeyPos(out, es[i][1]) < KeyPos(out, es[j][1])
           /\ \A i \in 1..Len(es) : \A j \in (i + 1)..Len(es) :
                 (OutputKey(es[i]) = OutputKey(es[j]) /\ LastForKey(es, j))
                 => /\ HasKey(out, OutputKey(es[j]))
                    /\ WithoutName(DictGet(out, OutputKey(es[j]))) = WithoutName(es[j][2])

\* the same on the entries whose key is their output key: no name field anywhere
C10_OrderAndPrecedenceOfPlainEntries ==
    (bOut.done /\ \A i \in 1..Len(InputEntries) : ~HasName(InputEntries[i][2]))
        => C10_OrderAndPrecedence

\* C11: every entry taken from the base servers or from the listed templates is
\* stored under the value of its name field when it has one, else under its own
\* key; with a name field the original key is not in the result, and no stored
\* value has a name field
C11_NameFieldGivesOutputKey ==
    bOut.done =>
        LET es == InputEntries
            out == bOut.servers
        IN \A i \in 1..Len(es) :
              /\ HasKey(out, OutputKey(es[i]))
              /\ ~HasName(DictGet(out, OutputKey(es[i])))
              /\ (/\ HasName(es[i][2])
                  /\ \A j \in 1..Len(es) : OutputKey(es[j]) # es[i][1])
                 => ~HasKey(out, es[i][1])

\* the result holds the content of template name of tpls, under the template's
\* key or under its output key
Included(out, name, tpls) ==
    \E j \in 1..Len(out) :
        /\ out[j][1] \in {name, OutputKey(<<name, DictGet(tpls, name)>>)}
        /\ WithoutName(out[j][2]) = WithoutName(DictGet(tpls, name))

\* C13: a listed name that is no template is skipped: the result has an entry
\* for it only when the base has one, and then the base's; every other listed
\* template is in the result, in list order
C13_MissingTemplateSkipped ==
    bOut.done =>
        LET names == bIn.server_names
            tpls == bIn.templates
            base == bIn.base_servers
            out == bOut.servers
        IN /\ \A i \in 1..Len(names) :
                 ~HasKey(tpls, names[i]) =>
                     /\ HasKey(out, names[i]) <=> HasKey(base, names[i])
                     /\ HasKey(base, names[i]) =>
                            DictGet(out, names[i]) = DictGet(base, names[i])
           /\ \A i \in 1..Len(names) :
                 HasKey(tpls, names[i]) => Included(out, names[i], tpls)
           /\ \A i \in 1..Len(names) : \A j \in (i + 1)..Len(names) :
                 (/\ HasKey(tpls, names[i]) /\ HasKey(tpls, names[j])
                  /\ names[i] # names[j]
                  /\ ~HasKey(base, names[i]) /\ ~HasKey(base, names[j])
                  /\ \A k \in 1..(j - 1) : names[k] # names[j])
                 => /\ HasKey(out, names[i]) /\ HasKey(out, names[j])
                    /\ KeyPos(out, names[i]) < KeyPos(out, names[j])

C13_Witness ==
    /\ bOut.done
    /\ Len(bIn.server_names) = 2
    /\ ~HasKey(bIn.templates, bIn.server_names[1])
    /\ ~HasKey(bIn.base_servers, bIn.server_names[1])
    /\ HasKey(bIn.templates, bIn.server_names[2])
    /\ HasKey(bOut.servers, bIn.server_names[2])
    /\ ~HasKey(bOut.servers, bIn.server_names[1])

\* the caller's mappings, as they are now
TemplatesNow ==
    [k \in 1..Len(bIn.templates) |->
        <<bIn.templates[k][1], heap.objs[ObjectOf("templates", bIn.templates[k][1])]>>]

BaseServersNow ==
    [k \in 1..Len(bIn.base_servers) |->
        <<bIn.base_servers[k][1],
          heap.objs[ObjectOf("base_servers", bIn.base_servers[k][1])]>>]

\* C12: the call leaves templates and the base as they were, name fields
\* included; a change made to the returned set does not show in them, and a
\* change made to them does not show in the returned set
C12_IndependentCopies ==
    /\ "source" \notin heap.touched =>
          /\ TemplatesNow = bIn.templates
          /\ BaseServersNow = bIn.base_servers
    /\ (bOut.done /\ "result" \notin heap.touched) =>
          Deref(heap.objs, heap.servers) = bOut.servers

C12_Witness ==
    /\ bOut.done
    /\ heap.touched = {"result", "source"}
    /\ \E k \in 1..Len(bIn.templates) :
          /\ HasName(bIn.templates[k][2])
          /\ HasKey(bOut.servers, bIn.templates[k][1])
          /\ DictGet(Deref(heap.objs, heap.servers), bIn.templates[k][1])
                 = Modified(bIn.templates[k][2])
    /\ Deref(heap.objs, heap.servers) # bOut.servers

----------------------------------------------------------------------------
(* Properties of substitute_env_vars *)

IsSet(e, name) == Getenv(e, name) # {}

VarSegs(segs) == {segs[k] : k \in {j \in 1..Len(segs) : segs[j].kind = "var"}}

UnsetNames(e, segs) == {seg.s : seg \in {v \in VarSegs(segs) : ~IsSet(e, v.s)}}

RECURSIVE ExpectedText(_, _)
\* the pieces one after the other: a placeholder of a set variable gives the raw
\* value, every other piece its own text
ExpectedText(e, segs) ==
    IF segs = << >> THEN << >>
    ELSE LET seg == Head(segs)
             piece == IF seg.kind = "var" /\ IsSet(e, seg.s)
                      THEN CHOOSE value \in Getenv(e, seg.s) : TRUE
                      ELSE Render(seg)
         IN piece \o ExpectedText(e, Tail(segs))

\* C14: in the value substitute_env_vars returns, every placeholder of an unset
\* variable stands as it was and every placeholder of a set variable is replaced
\* by the raw value; the missing-variable set holds the unset names and no other
C14_PlaceholderKeptOrReplaced ==
    /\ \A i \in 1..Len(sOut) :
          sOut[i].value = Wrap(sIn.wrap, ExpectedText(env, sIn.segs))
    /\ missing_vars = IF sOut = << >> THEN {} ELSE UnsetNames(env, sIn.segs)

C14_Witness ==
    /\ sOut # << >>
    /\ Len(sIn.segs) = 2
    /\ sIn.segs[1].kind = "var" /\ ~IsSet(env, sIn.segs[1].s)
    /\ sIn.segs[2].kind = "var" /\ IsSet(env, sIn.segs[2].s)
    /\ sIn.wrap = "map"
    /\ missing_vars = {sIn.segs[1].s}
    /\ sOut[1].value # SubstData

\* the names written as placeholders in the input
WrittenNames(segs) == {seg.s : seg \in VarSegs(segs)}

RECURSIVE KeysAndPrimsKept(_, _)
\* out has the shape of in: the same keys in the same order, lists of the same
\* length, and every number, boolean and null where and as it was
KeysAndPrimsKept(in, out) ==
    IF in.t # out.t THEN FALSE
    ELSE IF in.t = "map"
    THEN /\ Len(out.v) = Len(in.v)
         /\ \A k \in 1..Len(in.v) :
               /\ out.v[k][1] = in.v[k][1]
               /\ KeysAndPrimsKept(in.v[k][2], out.v[k][2])
    ELSE IF in.t = "list"
    THEN /\ Len(out.v) = Len(in.v)
         /\ \A k \in 1..Len(in.v) : KeysAndPrimsKept(in.v[k], out.v[k])
    ELSE IF in.t = "prim" THEN out = in
    ELSE TRUE

RECURSIVE StringLeaves(_)
\* the strings at the leaves of a tree
StringLeaves(data) ==
    IF data.t = "str" THEN {data.v}
    ELSE IF data.t = "map"
    THEN UNION {StringLeaves(data.v[k][2]) : k \in 1..Len(data.v)}
    ELSE IF data.t = "list"
    THEN UNION {StringLeaves(data.v[k]) : k \in 1..Len(data.v)}
    ELSE {}

\* C30: substitute_env_vars goes over each string once and over strings only: the
\* value of a set variable is inserted as it is, also when it spells a placeholder,
\* which is neither expanded nor recorded as missing; the keys of every mapping,
\* and every number, boolean and null, are in the result as they were
C30_SinglePassStringOnly ==
    /\ \A i \in 1..Len(sOut) :
          /\ KeysAndPrimsKept(SubstData, sOut[i].value)
          /\ StringLeaves(sOut[i].value) = {ExpectedText(env, sIn.segs)}
    /\ missing_vars \subseteq WrittenNames(sIn.segs)

C30_Witness ==
    /\ sOut # << >>
    /\ sIn.wrap = "map"
    /\ sIn.segs = <<Var(<<"V">>)>>
    /\ Getenv(env, <<"V">>) = {PlaceholderValue}
    /\ ~IsSet(env, <<"W">>)
    /\ sOut[1].value.v[1] = <<"command", Str(PlaceholderValue)>>
    /\ sOut[1].value.v[3] = <<"${V}", List(<< Prim("true"), Prim("null") >>)>>
    /\ missing_vars = {}

\* C17: what substitute_env_vars returns, its hash and the payload made of it
\* are the same with verbose on and off, and are made of the raw values also
\* where the verbose line shows a redacted one
C17_RedactionIsDisplayOnly ==
    /\ \A i \in 1..Len(sOut) : \A j \in 1..Len(sOut) :
          /\ sOut[i].value = sOut[j].value
          /\ sOut[i].hash = sOut[j].hash
          /\ sOut[i].payload = sOut[j].payload
    /\ \A i \in 1..Len(sOut) : \A k \in 1..Len(sOut[i].lines) :
          LET line == sOut[i].lines[k]
          IN line.kind = "substituted" =>
                \E seg \in VarSegs(sIn.segs) :
                    /\ seg.s = line.name
                    /\ sOut[i].value = Wrap(sIn.wrap, ExpectedText(env, sIn.segs))

C17_Witness ==
    /\ Len(sOut) = 2
    /\ sOut[1].verbose # sOut[2].verbose
    /\ \E i \in 1..2 : \E k \in 1..Len(sOut[i].lines) :
          /\ sOut[i].lines[k].kind = "substituted"
          /\ sOut[i].lines[k].shown # (CHOOSE value \in Getenv(env, sOut[i].lines[k].name) : TRUE)
    /\ sOut[1].value = sOut[2].value

----------------------------------------------------------------------------
(* Properties of hash_json_data *)

\* C18: a tree and any reordering of the keys of its mappings, at any depth,
\* have the same digest, so the reordered document is not dispatched
C18_HashIgnoresKeyOrder ==
    hOut.done =>
        /\ hOut.hx = hOut.hy
        /\ ~hOut.writes

C18_Witness ==
    /\ hOut.done
    /\ hIn.x.t = "map" /\ Len(hIn.x.v) = 3
    /\ hIn.x.v[1][1] # hIn.y.v[1][1]
    /\ \E k \in 1..3 : \E j \in 1..3 :
          /\ hIn.x.v[k][1] = "B" /\ hIn.y.v[j][1] = "B"
          /\ hIn.x.v[k][2] # hIn.y.v[j][2]
    /\ hOut.hx = hOut.hy

====
